---------------------------- MODULE Spec2Model ----------------------------
(***************************************************************************)
(* A model of the Tiny-x86-OS kernel core: the thread scheduler            *)
(* (src/src/kernel/thread/thd.cpp), the semaphore and the recursive mutex  *)
(* (src/include/kernel/thread/sync.h, src/src/kernel/thread/sync.cpp), the *)
(* blocking queue (src/include/kernel/util/block_queue.h), the IDE disk    *)
(* channel (src/src/kernel/io/disk/disk.cpp) and the page pools            *)
(* (src/src/kernel/memory/pool.cpp, src/src/kernel/memory/page.cpp).       *)
(*                                                                         *)
(* The machine has one CPU.  Exactly one thread, cur, executes; the other  *)
(* threads advance only after Schedule has switched to them.  Every action *)
(* of a thread is a stretch of code that runs with interrupts disabled or  *)
(* that touches no state another thread or an interrupt handler can see in *)
(* between.  The clock interrupt (Tick) is taken between two actions of    *)
(* the current thread whenever that thread runs with interrupts enabled.   *)
(***************************************************************************)
EXTENDS Integers, Sequences, FiniteSets, TLC

\* ------------------------------------------------------------------ bounds

\* The time slices of a thread (its priority_), shortened.
MaxTicks == 1

\* How deep a thread nests Mutex::Lock on the mutex it holds.
MaxDepth == 2

\* The capacity n of the BlockQueue<T, n>.
QueueSize == 1

\* The page frames of a physical pool, the pages of a virtual address pool and
\* the most pages one AllocPages call asks for.
PhyPages == 2

VrPages == 2

MaxCount == 2

\* ----------------------------------------------------------------- threads

IdleThread == "idle"

MainThread == "t1"

Workers == {"t1", "t2", "t3"}

Threads == Workers \cup {IdleThread}

\* Thread::Status: the values Block takes and Unblock accepts.
BlockedStates == {"Blocked", "Waiting", "Hanging"}

StatusValues == {"Died", "Ready", "Running"} \cup BlockedStates

NoThread == "none"

\* Semaphore<1>: the only instantiation (Mutex::sema_, stl::binary_semaphore).
SemMax == 1

\* The semaphores of the model: the mutex "m" and the binary semaphore "s" of
\* the scheduler scenario, BlockQueue::mtx_ "q", and IdeChnl::mtx_ "chl" and
\* IdeChnl::disk_done_ "done" of one IDE channel, and PhyMemPagePool::mtx_ of
\* the kernel pool "kpool" and of the user pool "upool".
Sems == {"m", "s", "q", "chl", "done", "kpool", "upool"}

\* The semaphores that start at 0 (binary_semaphore {0}); the others start at
\* max (Semaphore::val_ {max}).
ZeroSems == {"s", "done"}

\* Disk::Cmd
DiskCmds == {"read", "write", "identify"}

VARIABLES
    status,     \* Thread::status_
    ready,      \* ThreadLists::ready, head first
    cur,        \* GetCurrThread()
    ticks,      \* Thread::remain_ticks_
    pc,         \* where each thread is in its code
    depth,      \* how many Lock calls of a thread are not yet matched by Unlock
    semVal,     \* Semaphore::val_
    semWait,    \* Semaphore::waiters_, head first
    holder,     \* Mutex::holder_
    repeat,     \* Mutex::repeat_times_
    panic,      \* a dbg::Assert has failed: the kernel has halted
    qhead,      \* BlockQueue::head_
    qtail,      \* BlockQueue::tail_
    prod,       \* BlockQueue::prod_
    consr,      \* BlockQueue::consr_
    waitingIntr, \* IdeChnl::waiting_intr_
    devPending, \* the interrupts the drive has still to raise for its commands
    dop,        \* the disk operation each thread is in
    mem,        \* the page pools and the page tables
    blocks,     \* the page blocks handed out by the allocator and not yet freed
    last,       \* the last pool operation that returned, and its result
    mloc,       \* the locals of the pool operation each thread is in
    run,        \* the clock ticks of the current thread since it was dispatched
    intr,       \* EFLAGS.IF: interrupts are enabled
    guards,     \* IntrGuard::enabled_ of the guards of each thread, outermost first
    fk,         \* the contents of the user page frames, and what a fork has copied
    part,       \* Disk::FilePart: the file "/x", the open file table, the descriptors
    vol,        \* Disk::FilePart: the directories, the index nodes and the bitmaps
    heap,       \* the arenas and the free block lists of the heaps
    ide         \* the IDE channels and disks as InitDisk sets them up

schedVars == <<status, ready, cur, ticks>>

syncVars == <<semVal, semWait, holder, repeat>>

queueVars == <<qhead, qtail, prod, consr>>

diskVars == <<waitingIntr, devPending, dop>>

memVars == <<mem, blocks, last, mloc>>

\* The state of the scenarios further on.
moreVars == <<run, intr, guards, fk, part, vol, heap, ide>>

\* What the scheduler scenario leaves alone.
extVars == <<queueVars, diskVars, memVars, moreVars>>

\* What the queue scenario leaves alone.
nonQueueVars == <<depth, diskVars, memVars, moreVars>>

\* What the disk scenario leaves alone.
nonDiskVars == <<depth, queueVars, memVars, moreVars>>

\* What the pool scenarios leave alone.
nonMemVars == <<depth, queueVars, diskVars, moreVars>>

vars == <<status, ready, cur, ticks, pc, depth, semVal, semWait, holder, repeat, panic,
          queueVars, diskVars, memVars, moreVars>>

\* ---------------------------------------------------------------- TagList

\* TagList::Find
Find(list, x) == \E i \in 1..Len(list) : list[i] = x

\* TagList::PushBack
PushBack(list, x) == Append(list, x)

\* TagList::PushFront
PushFront(list, x) == <<x>> \o list

\* The position of x in list, 0 when absent.
IndexOf(list, x) ==
    IF Find(list, x) THEN CHOOSE i \in 1..Len(list) : list[i] = x ELSE 0

NoDuplicates(list) == \A i, j \in 1..Len(list) : list[i] = list[j] => i = j

\* --------------------------------------------------------------- scheduler

\* The assertions of Thread::Unblock.
UnblockOk(st, rd, thd) == st[thd] \in BlockedStates /\ ~Find(rd, thd)

\* Unblock with the thread put at the back of the ready list.
UnblockAtBack(st, rd, thd) ==
    [st |-> [st EXCEPT ![thd] = "Ready"], rd |-> Append(rd, thd)]

\* Thread::Unblock: the thread becomes Ready at the front of the ready list.
Unblock(st, rd, thd) ==
    [st |-> [st EXCEPT ![thd] = "Ready"], rd |-> PushFront(rd, thd)]

\* The assertions of Thread::Schedule (and of the Unblock it calls for the idle
\* thread when nothing is ready).
ScheduleOk(st, rd, t) ==
    /\ st[t] = "Running" => ~Find(rd, t)
    /\ (st[t] # "Running" /\ rd = <<>>) => UnblockOk(st, rd, IdleThread)

\* Schedule with the next thread left on the ready list.
ScheduleWithoutPop(st, rd, tk, t) ==
    LET running == st[t] = "Running"
        st1 == IF running THEN [st EXCEPT ![t] = "Ready"] ELSE st
        rd1 == IF running THEN Append(rd, t) ELSE rd
        st2 == IF rd1 = <<>> THEN [st1 EXCEPT ![IdleThread] = "Ready"] ELSE st1
        rd2 == IF rd1 = <<>> THEN <<IdleThread>> ELSE rd1
    IN [st |-> [st2 EXCEPT ![Head(rd2)] = "Running"], rd |-> rd2,
        tk |-> tk, cur |-> Head(rd2)]

\* Schedule that returns to its caller, without a switch, when no thread is
\* ready.
ScheduleCallerWhenEmpty(st, rd, tk, t) ==
    LET running == st[t] = "Running"
        st1 == IF running THEN [st EXCEPT ![t] = "Ready"] ELSE st
        rd1 == IF running THEN Append(rd, t) ELSE rd
    IN IF rd1 = <<>>
          THEN [st |-> st1, rd |-> rd1, tk |-> tk, cur |-> t]
          ELSE [st |-> [st1 EXCEPT ![Head(rd1)] = "Running"], rd |-> Tail(rd1),
                tk |-> tk, cur |-> Head(rd1)]

\* Thread::Schedule, called by thread t with interrupts disabled.
Schedule(st, rd, tk, t) ==
    LET running == st[t] = "Running"
        st1 == IF running THEN [st EXCEPT ![t] = "Ready"] ELSE st
        tk1 == IF running THEN [tk EXCEPT ![t] = MaxTicks] ELSE tk
        rd1 == IF running THEN PushBack(rd, t) ELSE rd
        u == IF rd1 = <<>> THEN Unblock(st1, rd1, IdleThread)
                           ELSE [st |-> st1, rd |-> rd1]
        next == Head(u.rd)
    IN [st |-> [u.st EXCEPT ![next] = "Running"], rd |-> Tail(u.rd),
        tk |-> tk1, cur |-> next]

\* Thread::Block: set the status, then Schedule.
Block(st, rd, tk, t, s) == Schedule([st EXCEPT ![t] = s], rd, tk, t)

\* The scheduler state becomes r.
Switch(r) ==
    /\ status' = r.st
    /\ ready' = r.rd
    /\ ticks' = r.tk
    /\ cur' = r.cur

\* The calls of Process::Fork that lock the mutex of a memory pool once the
\* child thread exists: AllocPages for the copy buffer, AllocPageAtAddr for
\* the page of the child, FreePages of the buffer.
FkStages == 1..3

\* The program positions of Process::Fork at stage i.
FkPc(i) ==
    [lock |-> <<"fk1_lock", "fk2_lock", "fk3_lock">>[i],
     dec |-> <<"fk1_dec", "fk2_dec", "fk3_dec">>[i],
     lwait |-> <<"fk1_lwait", "fk2_lwait", "fk3_lwait">>[i],
     got |-> <<"fk1_got", "fk2_got", "fk3_got">>[i],
     held |-> <<"fk1_held", "fk2_held", "fk3_held">>[i],
     inc |-> <<"fk1_inc", "fk2_inc", "fk3_inc">>[i],
     next |-> <<"fk2_lock", "fk3_lock", "fk_done">>[i]]

\* Process::Fork asserts that interrupts are disabled: every position of it.
ForkPcs ==
    UNION {{FkPc(i).lock, FkPc(i).dec, FkPc(i).lwait, FkPc(i).got, FkPc(i).held, FkPc(i).inc} :
              i \in FkStages}

\* The program positions at which a thread runs with interrupts disabled
\* (it is inside an IntrGuard scope that spans a Block).
IntrOffPcs ==
    ForkPcs \cup
    {"lock_wait", "sem_wait", "k_lwait",
     "push_loop", "push_lock", "push_dec", "push_lwait", "push_got", "push_wait",
     "push_woken", "push_inc",
     "pop_loop", "pop_lock", "pop_dec", "pop_lwait", "pop_got", "pop_wait",
     "pop_woken", "pop_inc",
     "dk_lwait", "dk_bwait", "m_lwait"}

IntrEnabled(t) == pc[t] \notin IntrOffPcs

\* ClockIntrHandler: Thread::Tick, and Schedule when the slices have run out.
Tick ==
    /\ ~panic
    /\ IntrEnabled(cur)
    /\ IF ticks[cur] # 0
          THEN /\ ticks' = [ticks EXCEPT ![cur] = @ - 1]
               /\ UNCHANGED <<status, ready, cur>>
          ELSE IF ScheduleOk(status, ready, cur)
                  THEN Switch(Schedule(status, ready, ticks, cur))
                  ELSE UNCHANGED schedVars
    /\ panic' = (ticks[cur] = 0 /\ ~ScheduleOk(status, ready, cur))
    /\ UNCHANGED <<pc, depth, syncVars>>
    /\ UNCHANGED extVars

\* Idle: Block(Blocked), then enable interrupts and halt the CPU.
IdleBlock ==
    /\ ~panic
    /\ cur = IdleThread
    /\ pc[IdleThread] = "idle_block"
    /\ Switch(Block(status, ready, ticks, IdleThread, "Blocked"))
    /\ pc' = [pc EXCEPT ![IdleThread] = "idle_halt"]
    /\ UNCHANGED <<depth, syncVars, panic>>
    /\ UNCHANGED extVars

\* Idle: HaltCpu returns after the next interrupt and the loop starts again.
IdleWake ==
    /\ ~panic
    /\ cur = IdleThread
    /\ pc[IdleThread] = "idle_halt"
    /\ pc' = [pc EXCEPT ![IdleThread] = "idle_block"]
    /\ UNCHANGED <<schedVars, depth, syncVars, panic>>
    /\ UNCHANGED extVars


\* --------------------------------------------------------------- semaphore

\* Semaphore::Decrease by thread t on semaphore s, one pass of its loop, under
\* its IntrGuard: with the value 0 the thread joins the waiters and blocks
\* (and runs the loop again at position wait once it is switched to); otherwise
\* the value is decreased and the thread goes on at position to.
SemDecrease(t, s, from, wait, to) ==
    /\ ~panic
    /\ cur = t
    /\ pc[t] \in {from, wait}
    /\ IF semVal[s] = 0
          THEN IF ~Find(semWait[s], t) /\ ScheduleOk([status EXCEPT ![t] = "Blocked"], ready, t)
                  THEN /\ semWait' = [semWait EXCEPT ![s] = PushBack(@, t)]
                       /\ Switch(Block(status, ready, ticks, t, "Blocked"))
                       /\ pc' = [pc EXCEPT ![t] = wait]
                       /\ UNCHANGED <<semVal, panic>>
                  ELSE /\ panic' = TRUE
                       /\ UNCHANGED <<schedVars, pc, semVal, semWait>>
          ELSE /\ semVal' = [semVal EXCEPT ![s] = @ - 1]
               /\ pc' = [pc EXCEPT ![t] = to]
               /\ UNCHANGED <<schedVars, semWait, panic>>
    /\ UNCHANGED <<holder, repeat>>

\* Increase that wakes the first waiter whatever the value is, and increases
\* the value below max.
SemIncreaseAlwaysWake(s) ==
    /\ IF semWait[s] # <<>>
          THEN /\ status' = [status EXCEPT ![Head(semWait[s])] = "Ready"]
               /\ ready' = <<Head(semWait[s])>> \o ready
               /\ semWait' = [semWait EXCEPT ![s] = Tail(@)]
          ELSE UNCHANGED <<status, ready, semWait>>
    /\ semVal' = [semVal EXCEPT ![s] = IF @ < SemMax THEN @ + 1 ELSE @]
    /\ UNCHANGED panic

\* Semaphore::Increase on semaphore s under its IntrGuard: nothing at all when
\* the value is max; otherwise the first waiter, if any, is unblocked and the
\* value is increased.
SemIncrease(s) ==
    IF semVal[s] # SemMax
       THEN IF semWait[s] # <<>>
               THEN LET next == Head(semWait[s])
                        u == Unblock(status, ready, next)
                    IN IF UnblockOk(status, ready, next)
                          THEN /\ status' = u.st
                               /\ ready' = u.rd
                               /\ semWait' = [semWait EXCEPT ![s] = Tail(@)]
                               /\ semVal' = [semVal EXCEPT ![s] = @ + 1]
                               /\ UNCHANGED panic
                          ELSE /\ panic' = TRUE
                               /\ UNCHANGED <<status, ready, semVal, semWait>>
               ELSE /\ semVal' = [semVal EXCEPT ![s] = @ + 1]
                    /\ UNCHANGED <<status, ready, semWait, panic>>
       ELSE UNCHANGED <<status, ready, semVal, semWait, panic>>

\* ------------------------------------------------------------------- mutex

\* Mutex::Lock up to the call of Semaphore::Decrease: the holder locks again,
\* any other thread goes on to Decrease at position dec.
MutexLock(t, m, from, dec, to) ==
    /\ ~panic
    /\ cur = t
    /\ pc[t] = from
    /\ IF holder[m] # t
          THEN /\ pc' = [pc EXCEPT ![t] = dec]
               /\ UNCHANGED <<repeat, panic>>
          ELSE IF repeat[m] > 0
                  THEN /\ repeat' = [repeat EXCEPT ![m] = @ + 1]
                       /\ pc' = [pc EXCEPT ![t] = to]
                       /\ UNCHANGED panic
                  ELSE /\ panic' = TRUE
                       /\ UNCHANGED <<repeat, pc>>
    /\ UNCHANGED <<schedVars, semVal, semWait, holder>>

\* Mutex::Lock after Semaphore::Decrease has returned: the thread becomes the
\* holder.
MutexLocked(t, m, from, to) ==
    /\ ~panic
    /\ cur = t
    /\ pc[t] = from
    /\ IF repeat[m] = 0
          THEN /\ holder' = [holder EXCEPT ![m] = t]
               /\ repeat' = [repeat EXCEPT ![m] = 1]
               /\ pc' = [pc EXCEPT ![t] = to]
               /\ UNCHANGED panic
          ELSE /\ panic' = TRUE
               /\ UNCHANGED <<holder, repeat, pc>>
    /\ UNCHANGED <<schedVars, semVal, semWait>>

\* Unlock that releases the mutex at every call, nested or not.
MutexUnlockAtOnce(t, m, from, inc, to) ==
    /\ ~panic
    /\ cur = t
    /\ pc[t] = from
    /\ holder[m] = t
    /\ repeat' = [repeat EXCEPT ![m] = 0]
    /\ holder' = [holder EXCEPT ![m] = NoThread]
    /\ pc' = [pc EXCEPT ![t] = inc]
    /\ UNCHANGED <<schedVars, semVal, semWait, panic>>

\* Mutex::Unlock up to the call of Semaphore::Increase: the last unlock clears
\* the holder and goes on to Increase at position inc, any other unlock counts
\* down and returns at position to.
MutexUnlock(t, m, from, inc, to) ==
    /\ ~panic
    /\ cur = t
    /\ pc[t] = from
    /\ IF holder[m] # t \/ repeat[m] < 1
          THEN /\ panic' = TRUE
               /\ UNCHANGED <<holder, repeat, pc>>
          ELSE IF repeat[m] = 1
                  THEN /\ repeat' = [repeat EXCEPT ![m] = 0]
                       /\ holder' = [holder EXCEPT ![m] = NoThread]
                       /\ pc' = [pc EXCEPT ![t] = inc]
                       /\ UNCHANGED panic
                  ELSE /\ repeat' = [repeat EXCEPT ![m] = @ - 1]
                       /\ pc' = [pc EXCEPT ![t] = to]
                       /\ UNCHANGED <<holder, panic>>
    /\ UNCHANGED <<schedVars, semVal, semWait>>

\* Mutex::Unlock, the call of Semaphore::Increase.
MutexUnlocked(t, m, from, to) ==
    /\ ~panic
    /\ cur = t
    /\ pc[t] = from
    /\ SemIncrease(m)
    /\ pc' = [pc EXCEPT ![t] = IF panic' THEN from ELSE to]
    /\ UNCHANGED <<cur, ticks, holder, repeat>>

\* ------------------------------------------------- the scheduler scenario
\* The main thread and the threads it starts or forks run, in any order, the
\* operations of Thread, of one Mutex "m" and of one binary semaphore "s".

\* Thread::Start (called by Thread::Create with interrupts enabled), up to
\* the status: the thread c that Create has just initialised (status Died)
\* becomes Ready.
ThreadStart(t, c) ==
    /\ ~panic
    /\ cur = t
    /\ pc[t] = "run"
    /\ depth[t] = 0
    /\ pc[c] = "new"
    /\ status[c] = "Died"
    /\ status' = [status EXCEPT ![c] = "Ready"]
    /\ ticks' = [ticks EXCEPT ![c] = MaxTicks]
    /\ pc' = [pc EXCEPT ![t] = "starting"]
    /\ UNCHANGED <<ready, cur, depth, syncVars, panic>>
    /\ UNCHANGED extVars

\* Thread::Start, the rest: the started thread joins the back of the ready list.
ThreadStartPush(t, c) ==
    /\ ~panic
    /\ cur = t
    /\ pc[t] = "starting"
    /\ pc[c] = "new"
    /\ status[c] = "Ready"
    /\ IF ~Find(ready, c)
          THEN /\ ready' = PushBack(ready, c)
               /\ pc' = [pc EXCEPT ![t] = "run", ![c] = "run"]
               /\ UNCHANGED panic
          ELSE /\ panic' = TRUE
               /\ UNCHANGED <<ready, pc>>
    /\ UNCHANGED <<status, cur, ticks, depth, syncVars>>
    /\ UNCHANGED extVars

\* Thread::Fork: the copy c of the current thread becomes Ready at the back of
\* the ready list and will run from the return of Fork.
ThreadFork(t, c) ==
    /\ ~panic
    /\ cur = t
    /\ pc[t] = "run"
    /\ depth[t] = 0
    /\ pc[c] = "new"
    /\ status[c] = "Died"
    /\ IF ~Find(ready, c)
          THEN /\ status' = [status EXCEPT ![c] = "Ready"]
               /\ ready' = PushBack(ready, c)
               /\ ticks' = [ticks EXCEPT ![c] = MaxTicks]
               /\ pc' = [pc EXCEPT ![c] = pc[t]]
               /\ UNCHANGED panic
          ELSE /\ panic' = TRUE
               /\ UNCHANGED <<status, ready, ticks, pc>>
    /\ UNCHANGED <<cur, depth, syncVars>>
    /\ UNCHANGED extVars

\* Thread::Yield: the thread becomes Ready at the back of the ready list, with
\* its remaining slices, and Schedule runs.
ThreadYield(t) ==
    /\ ~panic
    /\ cur = t
    /\ pc[t] = "run"
    /\ IF ~Find(ready, t)
          THEN /\ Switch(Schedule([status EXCEPT ![t] = "Ready"], PushBack(ready, t), ticks, t))
               /\ UNCHANGED panic
          ELSE /\ panic' = TRUE
               /\ UNCHANGED schedVars
    /\ UNCHANGED <<pc, depth, syncVars>>
    /\ UNCHANGED extVars

\* Thread::Block(s) called by a thread on itself.
ThreadBlock(t, s) ==
    /\ ~panic
    /\ cur = t
    /\ pc[t] = "run"
    /\ depth[t] = 0
    /\ IF ScheduleOk([status EXCEPT ![t] = s], ready, t)
          THEN /\ Switch(Block(status, ready, ticks, t, s))
               /\ pc' = [pc EXCEPT ![t] = "parked"]
               /\ UNCHANGED panic
          ELSE /\ panic' = TRUE
               /\ UNCHANGED <<schedVars, pc>>
    /\ UNCHANGED <<depth, syncVars>>
    /\ UNCHANGED extVars

\* Thread::Unblock(u) called by the current thread on a thread that blocked
\* itself.
ThreadUnblock(t, u) ==
    /\ ~panic
    /\ cur = t
    /\ pc[t] = "run"
    /\ pc[u] = "parked"
    /\ IF UnblockOk(status, ready, u)
          THEN /\ status' = Unblock(status, ready, u).st
               /\ ready' = Unblock(status, ready, u).rd
               /\ pc' = [pc EXCEPT ![u] = "run"]
               /\ UNCHANGED panic
          ELSE /\ panic' = TRUE
               /\ UNCHANGED <<status, ready, pc>>
    /\ UNCHANGED <<cur, ticks, depth, syncVars>>
    /\ UNCHANGED extVars

\* A thread calls Mutex::Lock on "m".
LockCall(t) ==
    /\ depth[t] < MaxDepth
    /\ MutexLock(t, "m", "run", "lock_dec", "run")
    /\ depth' = [depth EXCEPT ![t] = IF pc'[t] = "run" /\ ~panic' THEN @ + 1 ELSE @]
    /\ UNCHANGED extVars

LockDecrease(t) ==
    /\ SemDecrease(t, "m", "lock_dec", "lock_wait", "lock_got")
    /\ UNCHANGED depth
    /\ UNCHANGED extVars

LockReturn(t) ==
    /\ MutexLocked(t, "m", "lock_got", "run")
    /\ depth' = [depth EXCEPT ![t] = IF panic' THEN @ ELSE 1]
    /\ UNCHANGED extVars

\* A thread that has locked "m" calls Mutex::Unlock.
UnlockCall(t) ==
    /\ depth[t] > 0
    /\ MutexUnlock(t, "m", "run", "unlock_inc", "run")
    /\ depth' = [depth EXCEPT ![t] = IF panic' THEN @ ELSE @ - 1]
    /\ UNCHANGED extVars

UnlockReturn(t) ==
    /\ MutexUnlocked(t, "m", "unlock_inc", "run")
    /\ UNCHANGED depth
    /\ UNCHANGED extVars

\* A thread calls binary_semaphore::acquire on "s".
AcquireCall(t) ==
    /\ ~panic
    /\ cur = t
    /\ pc[t] = "run"
    /\ depth[t] = 0
    /\ pc' = [pc EXCEPT ![t] = "sem_dec"]
    /\ UNCHANGED <<schedVars, depth, syncVars, panic>>
    /\ UNCHANGED extVars

AcquireDecrease(t) ==
    /\ SemDecrease(t, "s", "sem_dec", "sem_wait", "run")
    /\ UNCHANGED depth
    /\ UNCHANGED extVars

\* A thread calls binary_semaphore::release on "s".
ReleaseCall(t) ==
    /\ ~panic
    /\ cur = t
    /\ pc[t] = "run"
    /\ pc' = [pc EXCEPT ![t] = "sem_inc"]
    /\ UNCHANGED <<schedVars, depth, syncVars, panic>>
    /\ UNCHANGED extVars

ReleaseIncrease(t) ==
    /\ ~panic
    /\ cur = t
    /\ pc[t] = "sem_inc"
    /\ SemIncrease("s")
    /\ pc' = [pc EXCEPT ![t] = IF panic' THEN "sem_inc" ELSE "run"]
    /\ UNCHANGED <<cur, ticks, depth, holder, repeat>>
    /\ UNCHANGED extVars

\* Semaphores and mutexes as constructed.
InitSync ==
    /\ semVal = [s \in Sems |-> IF s \in ZeroSems THEN 0 ELSE SemMax]
    /\ semWait = [s \in Sems |-> <<>>]
    /\ holder = [s \in Sems |-> NoThread]
    /\ repeat = [s \in Sems |-> 0]

\* The BlockQueue as constructed: empty, nobody waiting.
InitQueue ==
    /\ qhead = 0
    /\ qtail = 0
    /\ prod = NoThread
    /\ consr = NoThread

\* The IDE channel as constructed: no command, nobody waiting.
InitDisk ==
    /\ waitingIntr = FALSE
    /\ devPending = 0
    /\ dop = [t \in Threads |-> "none"]

\* PoolType, and the virtual address pools: the kernel's, the one of a user
\* process and the one of the child the process forks.
PhyPools == {"krnl", "usr"}

VrPools == {"krnl", "usr", "chld"}

\* The physical pool that backs a virtual address pool.
PhyOf(vp) == IF vp = "krnl" THEN "krnl" ELSE "usr"

\* PhyMemPagePool::GetLock
PoolMutex(pp) == IF pp = "krnl" THEN "kpool" ELSE "upool"

\* npos, and the null address.
NoPos == -1

\* The locals of a thread inside the page allocator: the operation, the
\* address pool, the page, the frame found for it and the frame found for a
\* page table.
NoLoc == [op |-> "none", vp |-> "krnl", va |-> NoPos, bit |-> NoPos, tab |-> NoPos]

\* The pools after InitMem and the page tables after the loader: nothing is
\* allocated, the kernel's page directory entries are present, those of the
\* user space are not.
InitMem ==
    /\ mem = [phyBits |-> [pp \in PhyPools |-> {}],
              phyFree |-> [pp \in PhyPools |-> PhyPages],
              vrBits |-> [vp \in VrPools |-> {}],
              vrFree |-> [vp \in VrPools |-> VrPages],
              pde |-> [vp \in VrPools |-> vp = "krnl"],
              pdeAddr |-> [vp \in VrPools |-> NoPos],
              pteAddr |-> [vp \in VrPools |-> [v \in 0..(VrPages - 1) |-> NoPos]],
              ptePres |-> [vp \in VrPools |-> [v \in 0..(VrPages - 1) |-> FALSE]]]
    /\ blocks = {}
    /\ last = [op |-> "none", vp |-> "krnl", res |-> NoPos]
    /\ mloc = [t \in Threads |-> NoLoc]

\* The first thread starts its run with no tick taken and the full budget.
InitSlice == run = [n |-> 0, full |-> TRUE]

\* InitKernel has enabled interrupts; no IntrGuard is alive.
InitGuard ==
    /\ intr = TRUE
    /\ guards = [t \in Threads |-> <<>>]

\* What a page holds.
PageValues == {0, 1}

\* The user frames hold zeroes and no process has forked.
InitFork ==
    fk = [data |-> [f \in 0..(PhyPages - 1) |-> 0],
          snap |-> [v \in 0..(VrPages - 1) |-> NoPos],
          forked |-> FALSE]

\* Disk::sector_size, IdxNode::direct_block_count and
\* indirect_sector_count_per_inode, scaled down; the data blocks of the
\* partition; the entries of the open file table and of a process's descriptor
\* table after the standard streams (the process's table is the smaller one).
SectorSize == 2

DirectCount == 2

IndirectCount == 2

FileCount == 3

DescCount == 2

\* sector_count_per_inode
MaxSectors == DirectCount + IndirectCount

\* The most bytes a file holds.
MaxLen == MaxSectors * SectorSize

\* The data blocks of the partition: more than a full file or a full
\* directory takes with its single indirect block table.
DiskBlocks == MaxSectors + 2

\* bit_count_per_sector, scaled down.
BitsPerSector == 2

\* A sector of zeroes.
ZeroSector == [i \in 1..SectorSize |-> 0]

\* File::Clear
ClearFile == [open |-> FALSE, flags |-> {}, pos |-> 0]

\* IdxNode::Init, and a partition with no file, no open file and no
\* descriptor; the process has no child, whose descriptor table child is.
InitPart ==
    part = [exists |-> FALSE,
            size |-> 0,
            direct |-> [i \in 0..(DirectCount - 1) |-> 0],
            itab |-> 0,
            open_times |-> 0,
            write_deny |-> FALSE,
            used |-> {},
            disk_used |-> {},
            sect |-> [b \in 1..DiskBlocks |-> ZeroSector],
            tab |-> [g \in 1..FileCount |-> ClearFile],
            descs |-> [d \in 1..DescCount |-> NoPos],
            child |-> <<>>]

\* dir_entry_count_per_sector, scaled down.
EntriesPerSector == 4

\* A directory entry as three words of a sector: its type, its name and the
\* index of its index node.
EntryWords == 3

\* sizeof(fs::DirEntry), in words.
EntrySize == EntryWords

\* A sector, in words.
SectorWords == EntriesPerSector * EntryWords

\* Directory::min_entry_count
MinEntryCount == 2

\* enum class FileType { Unknown, Regular, Directory }
Unknown == 0

Regular == 1

Directory == 2

\* max_file_count_per_part, scaled down: as in the source (0x1000 index nodes
\* against 140 sectors of 18 entries) there are more index nodes than entries
\* in one directory.
NodeCount == MaxSectors * EntriesPerSector + 2

\* fs::root_inode_idx
RootNode == 0

\* data_start_lba, the block of bit 0 of the block bitmap: the blocks are
\* numbered from 1 and 0 stands for no block.
RootLba == RootNode + 1

\* The characters of paths and names: Path::separator, the dot of
\* curr_dir_name and parent_dir_name, and letters.
Alphabet == <<"/", ".", "a", "b", "c", "d", "e", "f", "g", "h", "i", "j", "k", "l", "m", "n", "o", "p",
              "q", "r">>

Separator == "/"

\* Path::curr_dir_name
CurrDirName == <<".">>

\* Path::parent_dir_name
ParentDirName == <<".", ".">>

\* The byte of a character, 0 being the terminator.
CharCode(c) == CHOOSE i \in 1..Len(Alphabet) : Alphabet[i] = c

RECURSIVE NameWord(_)
\* DirEntry::name as the word of the sector it takes: the bytes of the name
\* in order, the terminator after them.
NameWord(name) ==
    IF name = <<>>
       THEN 0
       ELSE CharCode(Head(name)) + (Len(Alphabet) + 1) * NameWord(Tail(name))

\* A sector of zeroes, in words.
ZeroWords == [i \in 1..SectorWords |-> 0]

\* The entry j of a sector of a directory, j from 0.
EntryAt(sec, j) ==
    [type |-> sec[j * EntryWords + 1],
     name |-> sec[j * EntryWords + 2],
     inode_idx |-> sec[j * EntryWords + 3]]

\* The sector with the entry j replaced.
PutEntry(sec, j, e) ==
    [i \in 1..SectorWords |->
        IF i = j * EntryWords + 1 THEN e.type
        ELSE IF i = j * EntryWords + 2 THEN e.name
        ELSE IF i = j * EntryWords + 3 THEN e.inode_idx
        ELSE sec[i]]

\* DirEntry(type, name, inode_idx)
DirEntry(type, name, inode_idx) ==
    [type |-> type, name |-> NameWord(name), inode_idx |-> inode_idx]

\* An index node of the table of index nodes that is all zeroes.
ZeroNode ==
    [idx |-> 0, size |-> 0, direct |-> [i \in 0..(DirectCount - 1) |-> 0], itab |-> 0]

\* PaddedSuperBlock::WriteRootDirNode
RootDirNode ==
    [ZeroNode EXCEPT !.idx = RootNode,
                     !.size = MinEntryCount * EntrySize,
                     !.direct[0] = RootLba]

\* PaddedSuperBlock::WriteRootDirEntries
RootDirEntries ==
    PutEntry(PutEntry(ZeroWords, 0, DirEntry(Directory, CurrDirName, RootNode)),
             1, DirEntry(Directory, ParentDirName, RootNode))

\* An index node in memory: the copy of the table's index node, with
\* open_times and write_deny.
MemNode(node, times) ==
    [idx |-> node.idx, size |-> node.size, direct |-> node.direct, itab |-> node.itab,
     open_times |-> times, write_deny |-> FALSE]

\* File::Clear, the index node pointed to being named by its index.
ClearSlot == [open |-> FALSE, inode |-> NoPos, flags |-> {}, pos |-> 0]

\* FormatPart and PaddedSuperBlock::WriteTo on a disk of zeroes, then
\* MountDefaultPart and OpenRootDir: the bitmaps in memory (ibits, used) and
\* on the disk, the table of index nodes, the list of open index nodes, the
\* sectors of the data area, whether sector 0 of the disk was written, the
\* open file table, the descriptors of the process and the directories it got
\* from OpenDir.
InitVol ==
    vol = [ibits |-> {RootNode},
           ibits_disk |-> {RootNode},
           used |-> {RootLba},
           disk_used |-> {RootLba},
           nodes |-> [i \in 0..(NodeCount - 1) |-> IF i = RootNode THEN RootDirNode ELSE ZeroNode],
           open |-> <<MemNode(RootDirNode, 1)>>,
           sect |-> [b \in 1..DiskBlocks |-> IF b = RootLba THEN RootDirEntries ELSE ZeroWords],
           lba0 |-> FALSE,
           tab |-> [g \in 1..FileCount |-> ClearSlot],
           descs |-> [d \in 1..DescCount |-> NoPos],
           dirs |-> <<>>]

\* page_size, sizeof(MemArena) and MemBlockDescTab::min_block_size in words,
\* and the number of block descriptors: blocks of 1, 2 and 4 words.
PageWords == 8

ArenaWords == 2

MinBlockSize == 1

BlockDescCount == 3

\* A page that holds no arena.
NoArena == [desc |-> NoPos, count |-> 0, large |-> FALSE]

\* The heaps as constructed: no arena, every free block list empty, nothing
\* handed out, no call recorded.
InitHeap ==
    heap = [arenas |-> [vp \in {"krnl", "usr"} |-> [v \in 0..(VrPages - 1) |-> NoArena]],
            free |-> [vp \in {"krnl", "usr"} |-> [d \in 1..BlockDescCount |-> <<>>]],
            held |-> {}, log |-> <<>>]

\* The disks before InitDisk: nothing read from the BIOS, no disk attached.
InitIde ==
    ide = [count |-> 0, prims |-> <<>>, chnl |-> 0, disk |-> 0, inited |-> 0,
           attached |-> {}, scanned |-> {}, parts |-> {}, pos |-> "off"]

InitMore ==
    /\ InitSlice
    /\ InitGuard
    /\ InitFork
    /\ InitPart
    /\ InitVol
    /\ InitHeap
    /\ InitIde

\* The state after InitThread: the main thread runs, the idle thread is ready.
Init ==
    /\ status = [t \in Threads |->
                    IF t = MainThread THEN "Running"
                    ELSE IF t = IdleThread THEN "Ready" ELSE "Died"]
    /\ ready = <<IdleThread>>
    /\ cur = MainThread
    /\ ticks = [t \in Threads |-> MaxTicks]
    /\ pc = [t \in Threads |->
                IF t = MainThread THEN "run"
                ELSE IF t = IdleThread THEN "idle_block" ELSE "new"]
    /\ depth = [t \in Threads |-> 0]
    /\ panic = FALSE
    /\ InitSync
    /\ InitQueue
    /\ InitDisk
    /\ InitMem
    /\ InitMore

Next ==
    \/ Tick
    \/ IdleBlock
    \/ IdleWake
    \/ \E t, c \in Workers : ThreadStart(t, c)
    \/ \E t, c \in Workers : ThreadStartPush(t, c)
    \/ \E t, c \in Workers : ThreadFork(t, c)
    \/ \E t \in Workers : ThreadYield(t)
    \/ \E t \in Workers, s \in BlockedStates : ThreadBlock(t, s)
    \/ \E t, u \in Workers : ThreadUnblock(t, u)
    \/ \E t \in Workers : LockCall(t)
    \/ \E t \in Workers : LockDecrease(t)
    \/ \E t \in Workers : LockReturn(t)
    \/ \E t \in Workers : UnlockCall(t)
    \/ \E t \in Workers : UnlockReturn(t)
    \/ \E t \in Workers : AcquireCall(t)
    \/ \E t \in Workers : AcquireDecrease(t)
    \/ \E t \in Workers : ReleaseCall(t)
    \/ \E t \in Workers : ReleaseIncrease(t)

Spec == Init /\ [][Next]_vars

NoPanic == ~panic

TypeOK ==
    /\ status \in [Threads -> StatusValues]
    /\ cur \in Threads
    /\ \A i \in 1..Len(ready) : ready[i] \in Threads

\* ------------------------------------------------------------ BlockQueue
\* Every worker calls Push and Pop of one BlockQueue, with interrupts disabled
\* as both methods demand; the queue's mutex is "q".

GetNextPos(pos) == (pos + 1) % (QueueSize + 1)

IsFull == GetNextPos(qhead) = qtail

IsEmpty == qhead = qtail

\* All workers started and ready behind the running main thread.
InitStarted ==
    /\ status = [t \in Threads |-> IF t = MainThread THEN "Running" ELSE "Ready"]
    /\ ready = <<"t2", "t3", IdleThread>>
    /\ cur = MainThread
    /\ ticks = [t \in Threads |-> MaxTicks]
    /\ pc = [t \in Threads |-> IF t = IdleThread THEN "idle_block" ELSE "run"]
    /\ depth = [t \in Threads |-> 0]
    /\ panic = FALSE

\* BlockQueue::Wait by thread t, waiter being prod_ (isProd) or consr_.
QueueWait(t, isProd, from, to) ==
    /\ ~panic
    /\ cur = t
    /\ pc[t] = from
    /\ IF (IF isProd THEN prod ELSE consr) = NoThread
          /\ ScheduleOk([status EXCEPT ![t] = "Blocked"], ready, t)
          THEN /\ prod' = IF isProd THEN t ELSE prod
               /\ consr' = IF isProd THEN consr ELSE t
               /\ Switch(Block(status, ready, ticks, t, "Blocked"))
               /\ pc' = [pc EXCEPT ![t] = to]
               /\ UNCHANGED panic
          ELSE /\ panic' = TRUE
               /\ UNCHANGED <<prod, consr, schedVars, pc>>
    /\ UNCHANGED <<qhead, qtail, syncVars>>

\* BlockQueue::Push, one evaluation of `while (IsFull())`: a full queue sends
\* the thread to lock mtx_; otherwise the value is stored, head_ advances and
\* a waiting consumer is woken (WakeUp).
PushLoop(t) ==
    /\ ~panic
    /\ cur = t
    /\ pc[t] \in {"run", "push_loop"}
    /\ IF IsFull
          THEN /\ pc' = [pc EXCEPT ![t] = "push_lock"]
               /\ UNCHANGED <<status, ready, queueVars, panic>>
          ELSE /\ qhead' = GetNextPos(qhead)
               /\ IF consr # NoThread
                     THEN IF UnblockOk(status, ready, consr)
                             THEN /\ status' = Unblock(status, ready, consr).st
                                  /\ ready' = Unblock(status, ready, consr).rd
                                  /\ consr' = NoThread
                                  /\ UNCHANGED panic
                             ELSE /\ panic' = TRUE
                                  /\ UNCHANGED <<status, ready, consr>>
                     ELSE UNCHANGED <<status, ready, consr, panic>>
               /\ pc' = [pc EXCEPT ![t] = "run"]
               /\ UNCHANGED <<qtail, prod>>
    /\ UNCHANGED <<cur, ticks, syncVars, nonQueueVars>>

\* Push: lock_guard guard {mtx_}.
PushLock(t) ==
    /\ MutexLock(t, "q", "push_lock", "push_dec", "push_wait")
    /\ UNCHANGED <<queueVars, nonQueueVars>>

PushLockDecrease(t) ==
    /\ SemDecrease(t, "q", "push_dec", "push_lwait", "push_got")
    /\ UNCHANGED <<queueVars, nonQueueVars>>

PushLocked(t) ==
    /\ MutexLocked(t, "q", "push_got", "push_wait")
    /\ UNCHANGED <<queueVars, nonQueueVars>>

\* Push: Wait(prod_), called with mtx_ held.
PushWait(t) ==
    /\ QueueWait(t, TRUE, "push_wait", "push_woken")
    /\ UNCHANGED nonQueueVars

\* Push: the woken producer leaves the guard's scope and evaluates the loop
\* condition again.
PushUnlock(t) ==
    /\ MutexUnlock(t, "q", "push_woken", "push_inc", "push_loop")
    /\ UNCHANGED <<queueVars, nonQueueVars>>

PushUnlocked(t) ==
    /\ MutexUnlocked(t, "q", "push_inc", "push_loop")
    /\ UNCHANGED <<queueVars, nonQueueVars>>

\* BlockQueue::Pop, one evaluation of `while (IsEmpty())`: an empty queue
\* sends the thread to lock mtx_; otherwise the value is taken, tail_ advances
\* and a waiting producer is woken (WakeUp).
PopLoop(t) ==
    /\ ~panic
    /\ cur = t
    /\ pc[t] \in {"run", "pop_loop"}
    /\ IF IsEmpty
          THEN /\ pc' = [pc EXCEPT ![t] = "pop_lock"]
               /\ UNCHANGED <<status, ready, queueVars, panic>>
          ELSE /\ qtail' = GetNextPos(qtail)
               /\ IF prod # NoThread
                     THEN IF UnblockOk(status, ready, prod)
                             THEN /\ status' = Unblock(status, ready, prod).st
                                  /\ ready' = Unblock(status, ready, prod).rd
                                  /\ prod' = NoThread
                                  /\ UNCHANGED panic
                             ELSE /\ panic' = TRUE
                                  /\ UNCHANGED <<status, ready, prod>>
                     ELSE UNCHANGED <<status, ready, prod, panic>>
               /\ pc' = [pc EXCEPT ![t] = "run"]
               /\ UNCHANGED <<qhead, consr>>
    /\ UNCHANGED <<cur, ticks, syncVars, nonQueueVars>>

\* Pop: lock_guard guard {mtx_}.
PopLock(t) ==
    /\ MutexLock(t, "q", "pop_lock", "pop_dec", "pop_wait")
    /\ UNCHANGED <<queueVars, nonQueueVars>>

PopLockDecrease(t) ==
    /\ SemDecrease(t, "q", "pop_dec", "pop_lwait", "pop_got")
    /\ UNCHANGED <<queueVars, nonQueueVars>>

PopLocked(t) ==
    /\ MutexLocked(t, "q", "pop_got", "pop_wait")
    /\ UNCHANGED <<queueVars, nonQueueVars>>

\* Pop: Wait(consr_), called with mtx_ held.
PopWait(t) ==
    /\ QueueWait(t, FALSE, "pop_wait", "pop_woken")
    /\ UNCHANGED nonQueueVars

\* Pop: the woken consumer leaves the guard's scope and evaluates the loop
\* condition again.
PopUnlock(t) ==
    /\ MutexUnlock(t, "q", "pop_woken", "pop_inc", "pop_loop")
    /\ UNCHANGED <<queueVars, nonQueueVars>>

PopUnlocked(t) ==
    /\ MutexUnlocked(t, "q", "pop_inc", "pop_loop")
    /\ UNCHANGED <<queueVars, nonQueueVars>>

QueueInit ==
    /\ InitStarted
    /\ InitSync
    /\ InitQueue
    /\ InitDisk
    /\ InitMem
    /\ InitMore

QueueNext ==
    \/ Tick
    \/ IdleBlock
    \/ IdleWake
    \/ \E t \in Workers : PushLoop(t)
    \/ \E t \in Workers : PushLock(t)
    \/ \E t \in Workers : PushLockDecrease(t)
    \/ \E t \in Workers : PushLocked(t)
    \/ \E t \in Workers : PushWait(t)
    \/ \E t \in Workers : PushUnlock(t)
    \/ \E t \in Workers : PushUnlocked(t)
    \/ \E t \in Workers : PopLoop(t)
    \/ \E t \in Workers : PopLock(t)
    \/ \E t \in Workers : PopLockDecrease(t)
    \/ \E t \in Workers : PopLocked(t)
    \/ \E t \in Workers : PopWait(t)
    \/ \E t \in Workers : PopUnlock(t)
    \/ \E t \in Workers : PopUnlocked(t)

QueueSpec == QueueInit /\ [][QueueNext]_vars

\* C4: a thread blocks in Push (Wait(prod_)) only when the queue is full at
\* that moment, and in Pop (Wait(consr_)) only when it is empty at that moment.
C4_BlocksOnlyWhenFullOrEmpty ==
    [][\A t \in Workers :
          /\ (pc[t] = "push_wait" /\ pc'[t] = "push_woken") => IsFull
          /\ (pc[t] = "pop_wait" /\ pc'[t] = "pop_woken") => IsEmpty]_vars

\* ------------------------------------------------------------- IDE disk
\* Two workers call ReadSectors, WriteSectors and GetInfo of the disks of one
\* IDE channel, with interrupts enabled.  The drive raises one interrupt for
\* every command it has accepted; a command written while another is still in
\* progress may replace it.

\* The main thread and one more thread started, the third never created.
InitTwoStarted ==
    /\ status = [t \in Threads |->
                    IF t = MainThread THEN "Running"
                    ELSE IF t = "t3" THEN "Died" ELSE "Ready"]
    /\ ready = <<"t2", IdleThread>>
    /\ cur = MainThread
    /\ ticks = [t \in Threads |-> MaxTicks]
    /\ pc = [t \in Threads |->
                IF t = IdleThread THEN "idle_block"
                ELSE IF t = "t3" THEN "new" ELSE "run"]
    /\ depth = [t \in Threads |-> 0]
    /\ panic = FALSE

\* A thread enters Disk::ReadSectors, Disk::WriteSectors (both start with
\* lock_guard guard {chnl.GetLock()}) or Disk::GetInfo (which starts with
\* Select and SendCmd).
DiskCall(t, cmd) ==
    /\ ~panic
    /\ cur = t
    /\ pc[t] = "run"
    /\ dop' = [dop EXCEPT ![t] = cmd]
    /\ pc' = [pc EXCEPT ![t] = IF cmd = "identify" THEN "dk_cmd" ELSE "dk_lock"]
    /\ UNCHANGED <<schedVars, syncVars, panic, waitingIntr, devPending, nonDiskVars>>

DiskLock(t) ==
    /\ MutexLock(t, "chl", "dk_lock", "dk_dec", "dk_cmd")
    /\ UNCHANGED <<diskVars, nonDiskVars>>

DiskLockDecrease(t) ==
    /\ SemDecrease(t, "chl", "dk_dec", "dk_lwait", "dk_got")
    /\ UNCHANGED <<diskVars, nonDiskVars>>

DiskLocked(t) ==
    /\ MutexLocked(t, "chl", "dk_got", "dk_cmd")
    /\ UNCHANGED <<diskVars, nonDiskVars>>

\* Disk::SendCmd: NeedToWaitForIntr(), then the command byte goes to the
\* drive.  Read and Identify make the drive work at once; Write makes it wait
\* for the data first.
DiskSendCmd(t) ==
    /\ ~panic
    /\ cur = t
    /\ pc[t] = "dk_cmd"
    /\ waitingIntr' = TRUE
    /\ IF dop[t] = "write"
          THEN /\ pc' = [pc EXCEPT ![t] = "dk_data"]
               /\ UNCHANGED devPending
          ELSE /\ pc' = [pc EXCEPT ![t] = "dk_block"]
               /\ \/ devPending' = devPending + 1
                  \/ devPending > 0 /\ devPending' = devPending
    /\ UNCHANGED <<schedVars, syncVars, panic, dop, nonDiskVars>>

\* WriteSectors: BusyWait and WriteWords; the drive starts writing.
DiskWriteWords(t) ==
    /\ ~panic
    /\ cur = t
    /\ pc[t] = "dk_data"
    /\ pc' = [pc EXCEPT ![t] = "dk_block"]
    /\ \/ devPending' = devPending + 1
       \/ devPending > 0 /\ devPending' = devPending
    /\ UNCHANGED <<schedVars, syncVars, panic, waitingIntr, dop, nonDiskVars>>

\* IdeChnl::Block: disk_done_.acquire().
DiskBlock(t) ==
    /\ SemDecrease(t, "done", "dk_block", "dk_bwait", "dk_woken")
    /\ UNCHANGED <<diskVars, nonDiskVars>>

\* After the wake-up: BusyWait and ReadWords (ReadSectors, GetInfo) or the
\* end of the loop body (WriteSectors).  ReadSectors and WriteSectors go on
\* with the next command while sectors are left; GetInfo returns.
DiskTransfer(t, more) ==
    /\ ~panic
    /\ cur = t
    /\ pc[t] = "dk_woken"
    /\ IF dop[t] = "identify"
          THEN /\ ~more
               /\ pc' = [pc EXCEPT ![t] = "run"]
               /\ dop' = [dop EXCEPT ![t] = "none"]
          ELSE /\ pc' = [pc EXCEPT ![t] = IF more THEN "dk_cmd" ELSE "dk_unlock"]
               /\ UNCHANGED dop
    /\ UNCHANGED <<schedVars, syncVars, panic, waitingIntr, devPending, nonDiskVars>>

\* The lock_guard of ReadSectors and WriteSectors goes out of scope.
DiskUnlock(t) ==
    /\ MutexUnlock(t, "chl", "dk_unlock", "dk_inc", "run")
    /\ UNCHANGED <<diskVars, nonDiskVars>>

DiskUnlocked(t) ==
    /\ MutexUnlocked(t, "chl", "dk_inc", "run")
    /\ dop' = [dop EXCEPT ![t] = IF panic' THEN @ ELSE "none"]
    /\ UNCHANGED <<waitingIntr, devPending, nonDiskVars>>

\* DiskIntrHandler, run on the stack of the current thread with interrupts
\* disabled: a channel that waits for an interrupt stops waiting and
\* disk_done_ is released (IdeChnl::Unblock); otherwise nothing happens.
DiskIntr ==
    /\ ~panic
    /\ IntrEnabled(cur)
    /\ devPending > 0
    /\ devPending' = devPending - 1
    /\ IF waitingIntr
          THEN /\ waitingIntr' = FALSE
               /\ SemIncrease("done")
          ELSE UNCHANGED <<waitingIntr, status, ready, semVal, semWait, panic>>
    /\ UNCHANGED <<cur, ticks, pc, holder, repeat, dop, nonDiskVars>>

DiskInit ==
    /\ InitTwoStarted
    /\ InitSync
    /\ InitQueue
    /\ InitDisk
    /\ InitMem
    /\ InitMore

DiskNext ==
    \/ Tick
    \/ IdleBlock
    \/ IdleWake
    \/ DiskIntr
    \/ \E t \in Workers, cmd \in DiskCmds : DiskCall(t, cmd)
    \/ \E t \in Workers : DiskLock(t)
    \/ \E t \in Workers : DiskLockDecrease(t)
    \/ \E t \in Workers : DiskLocked(t)
    \/ \E t \in Workers : DiskSendCmd(t)
    \/ \E t \in Workers : DiskWriteWords(t)
    \/ \E t \in Workers : DiskBlock(t)
    \/ \E t \in Workers, more \in BOOLEAN : DiskTransfer(t, more)
    \/ \E t \in Workers : DiskUnlock(t)
    \/ \E t \in Workers : DiskUnlocked(t)

DiskSpec == DiskInit /\ [][DiskNext]_vars

\* A thread inside a disk operation executes its next stretch of code.
DiskStep(t) ==
    \/ DiskLock(t)
    \/ DiskLockDecrease(t)
    \/ DiskLocked(t)
    \/ DiskSendCmd(t)
    \/ DiskWriteWords(t)
    \/ DiskBlock(t)
    \/ \E more \in BOOLEAN : DiskTransfer(t, more)
    \/ DiskUnlock(t)
    \/ DiskUnlocked(t)

\* The clock keeps interrupting, the drive raises the interrupts it owes, the
\* idle thread keeps looping, and a thread that is switched to again and again
\* executes its code.
DiskFairness ==
    /\ SF_vars(Tick)
    /\ SF_vars(DiskIntr)
    /\ WF_vars(IdleBlock)
    /\ WF_vars(IdleWake)
    /\ \A t \in Workers : SF_vars(DiskStep(t))

FairDiskSpec == DiskSpec /\ DiskFairness

\* A thread has a command outstanding from SendCmd until it has been woken
\* and has taken (or, for a write, handed over) the data.
Outstanding(t) == pc[t] \in {"dk_data", "dk_block", "dk_bwait", "dk_woken"}

\* C5: at most one command is outstanding on the channel: from the moment a
\* thread has sent a command (read, write or identify) until it has finished
\* the data transfer, no other thread has a command of its own under way.
C5_OneCommandPerChannel == Cardinality({t \in Workers : Outstanding(t)}) <= 1

\* C6: every command a thread has sent and waits for in IdeChnl::Block is
\* followed by the wake-up of that thread.
C6_EveryCommandWoken ==
    \A t \in Workers : (pc[t] \in {"dk_block", "dk_bwait"}) ~> (pc[t] = "dk_woken")

\* ----------------------------------------------------------- page pools
\* The operations of pool.cpp and page.cpp as functions of the memory state m:
\* each yields the new memory state m, the result res (NoPos for null) and
\* bad, whether a dbg::Assert has failed.

Min(S) == CHOOSE x \in S : \A y \in S : x <= y

\* Bitmap::Alloc, the search: the first run of count clear bits, or npos.
BitmapFind(bits, cap, count) ==
    LET runs == {b \in 0..(cap - count) : \A k \in b..(b + count - 1) : k \notin bits}
    IN IF runs = {} THEN NoPos ELSE Min(runs)

VrAllocPages(m, vp, count) ==
    LET b == BitmapFind(m.vrBits[vp], VrPages, count)
    IN IF b = NoPos
          THEN [m |-> m, res |-> NoPos, bad |-> FALSE]
          ELSE IF m.vrFree[vp] < count
                  THEN [m |-> m, res |-> NoPos, bad |-> TRUE]
                  ELSE [m |-> [m EXCEPT !.vrBits[vp] = @ \cup (b..(b + count - 1)),
                                        !.vrFree[vp] = @ - count],
                        res |-> b, bad |-> FALSE]

\* VrAddrPool::AllocPageAtAddr: ForceAlloc sets the bit whatever it was, and
\* free_count_ goes down by one.
VrAllocPageAtAddr(m, vp, v) ==
    IF m.vrFree[vp] < 1
       THEN [m |-> m, res |-> NoPos, bad |-> TRUE]
       ELSE [m |-> [m EXCEPT !.vrBits[vp] = @ \cup {v}, !.vrFree[vp] = @ - 1],
             res |-> v, bad |-> FALSE]

VrFreePages(m, vp, base, count) ==
    [m EXCEPT !.vrBits[vp] = @ \ (base..(base + count - 1)), !.vrFree[vp] = @ + count]

\* PhyMemPagePool::AllocPages(1), the search of Bitmap::Alloc.
PhyFind(m, pp) == BitmapFind(m.phyBits[pp], PhyPages, 1)

\* PhyMemPagePool::AllocPages(1), from Bitmap::Set on: the bit found is set
\* and free_count_ goes down by one.
PhySet(m, pp, f) ==
    IF m.phyFree[pp] < 1
       THEN [m |-> m, res |-> NoPos, bad |-> TRUE]
       ELSE [m |-> [m EXCEPT !.phyBits[pp] = @ \cup {f}, !.phyFree[pp] = @ - 1],
             res |-> f, bad |-> FALSE]

PhyFreePages(m, pp, f) ==
    [m EXCEPT !.phyBits[pp] = @ \ {f}, !.phyFree[pp] = @ + 1]

IsMapped(m, vp, v) == m.pde[vp] /\ m.ptePres[vp][v]

\* VrAddr::MapToPhyAddr, the new page table: the frame pt found in the kernel
\* physical pool is taken, the page directory entry points to it and the table
\* is cleared.
NewPageTab(m, vp, pt) ==
    LET s == PhySet(m, "krnl", pt)
    IN IF s.bad
          THEN [m |-> m, res |-> NoPos, bad |-> TRUE]
          ELSE [m |-> [s.m EXCEPT !.pde[vp] = TRUE,
                                  !.pdeAddr[vp] = pt,
                                  !.pteAddr[vp] = [x \in 0..(VrPages - 1) |-> NoPos],
                                  !.ptePres[vp] = [x \in 0..(VrPages - 1) |-> FALSE]],
                res |-> pt, bad |-> FALSE]

\* VrAddr::MapToPhyAddr, the page table entry: it must not be present, and
\* becomes present with the address of frame f.
SetPageTabEntry(m, vp, v, f) ==
    IF m.ptePres[vp][v]
       THEN [m |-> m, res |-> NoPos, bad |-> TRUE]
       ELSE [m |-> [m EXCEPT !.pteAddr[vp][v] = f, !.ptePres[vp][v] = TRUE],
             res |-> v, bad |-> FALSE]

\* VrAddr::MapToPhyAddr: a missing page table is allocated from the kernel
\* physical pool first (AssertAlloc halts the kernel when there is none).
MapToPhyAddr(m, vp, v, f) ==
    IF m.pde[vp]
       THEN SetPageTabEntry(m, vp, v, f)
       ELSE LET pt == PhyFind(m, "krnl")
                n == NewPageTab(m, vp, pt)
            IN IF pt = NoPos \/ n.bad
                  THEN [m |-> m, res |-> NoPos, bad |-> TRUE]
                  ELSE SetPageTabEntry(n.m, vp, v, f)

Unmap(m, vp, v) == IF m.pde[vp] THEN [m EXCEPT !.ptePres[vp][v] = FALSE] ELSE m

RECURSIVE FreeEach(_, _, _, _, _)
\* FreePages(mem_pool, addr_pool, vr_base, count), its loop from page i on.
FreeEach(m, vp, base, i, count) ==
    IF i = count
       THEN m
       ELSE FreeEach(Unmap(PhyFreePages(m, PhyOf(vp), m.pteAddr[vp][base + i]), vp, base + i),
                     vp, base, i + 1, count)

\* FreePages(mem_pool, addr_pool, vr_base, count)
FreePages(m, vp, base, count) ==
    VrFreePages(FreeEach(m, vp, base, 0, count), vp, base, count)

RECURSIVE AllocEach(_, _, _, _, _)
\* AllocPages(mem_pool, addr_pool, count), its loop from page i on: a failed
\* physical allocation undoes the call only when i > 0.
AllocEach(m, vp, base, i, count) ==
    IF i = count
       THEN [m |-> m, res |-> base, bad |-> FALSE]
       ELSE LET f == PhyFind(m, PhyOf(vp))
            IN IF f # NoPos
                  THEN LET s == PhySet(m, PhyOf(vp), f)
                           mp == MapToPhyAddr(s.m, vp, base + i, f)
                       IN IF s.bad \/ mp.bad
                             THEN [m |-> m, res |-> NoPos, bad |-> TRUE]
                             ELSE AllocEach(mp.m, vp, base, i + 1, count)
                  ELSE IF i > 0
                          THEN [m |-> VrFreePages(FreePages(m, vp, base, i),
                                                  vp, base + i, count - i),
                                res |-> NoPos, bad |-> FALSE]
                          ELSE [m |-> m, res |-> NoPos, bad |-> FALSE]

\* AllocPages(mem_pool, addr_pool, count)
AllocPages(m, vp, count) ==
    LET a == VrAllocPages(m, vp, count)
    IN IF a.res = NoPos THEN a ELSE AllocEach(a.m, vp, a.res, 0, count)

\* AllocPageAtAddr(mem_pool, addr_pool, vr_addr)
AllocPageAtAddr(m, vp, v) ==
    IF IsMapped(m, vp, v)
       THEN [m |-> m, res |-> NoPos, bad |-> TRUE]
       ELSE LET a == VrAllocPageAtAddr(m, vp, v)
                f == PhyFind(a.m, PhyOf(vp))
            IN IF a.bad
                  THEN a
                  ELSE IF f # NoPos
                          THEN LET s == PhySet(a.m, PhyOf(vp), f)
                                   mp == MapToPhyAddr(s.m, vp, v, f)
                               IN IF s.bad \/ mp.bad
                                     THEN [m |-> m, res |-> NoPos, bad |-> TRUE]
                                     ELSE mp
                          ELSE [m |-> a.m, res |-> NoPos, bad |-> FALSE]

RECURSIVE CopyEach(_, _, _)
\* Process::CopyMemTo, its loop from page i on: every page allocated in the
\* parent's pool (bits) is allocated at the same address in the child's pool;
\* the result of AllocPageAtAddr is not looked at.
CopyEach(m, bits, i) ==
    IF i = VrPages
       THEN [m |-> m, res |-> NoPos, bad |-> FALSE]
       ELSE IF i \in bits
               THEN LET r == AllocPageAtAddr(m, "chld", i)
                    IN IF r.bad THEN r ELSE CopyEach(r.m, bits, i + 1)
               ELSE CopyEach(m, bits, i + 1)

\* ------------------------------------------------- the pool scenario
\* One thread calls the page allocator; no other thread interferes, so every
\* call runs from taking the pool's mutex to releasing it in one step.

\* The memory state becomes r.m, or the kernel halts on a failed assertion.
PoolReturn(r, op, vp) ==
    /\ mem' = IF r.bad THEN mem ELSE r.m
    /\ panic' = r.bad
    /\ last' = IF r.bad THEN last ELSE [op |-> op, vp |-> vp, res |-> r.res]

\* mem::AllocPages(type, count)
CallAllocPages(vp, count) ==
    /\ ~panic
    /\ LET r == AllocPages(mem, vp, count)
       IN /\ PoolReturn(r, "alloc_pages", vp)
          /\ blocks' = IF r.bad \/ r.res = NoPos
                          THEN blocks
                          ELSE blocks \cup {[vp |-> vp, base |-> r.res, count |-> count]}
    /\ UNCHANGED <<schedVars, syncVars, pc, mloc, nonMemVars>>

\* mem::AllocPageAtAddr(type, vr_addr), called as its assertion demands with
\* an address that is not mapped.
CallAllocPageAtAddr(vp, v) ==
    /\ ~panic
    /\ ~IsMapped(mem, vp, v)
    /\ LET r == AllocPageAtAddr(mem, vp, v)
       IN /\ PoolReturn(r, "alloc_page_at", vp)
          /\ blocks' = IF r.bad \/ r.res = NoPos
                          THEN blocks
                          ELSE blocks \cup {[vp |-> vp, base |-> v, count |-> 1]}
    /\ UNCHANGED <<schedVars, syncVars, pc, mloc, nonMemVars>>

\* mem::FreePages(vr_base, count) on a block the allocator has handed out.
CallFreePages(b) ==
    /\ ~panic
    /\ b \in blocks
    /\ PoolReturn([m |-> FreePages(mem, b.vp, b.base, b.count), res |-> b.base, bad |-> FALSE],
                  "free_pages", b.vp)
    /\ blocks' = blocks \ {b}
    /\ UNCHANGED <<schedVars, syncVars, pc, mloc, nonMemVars>>

\* Process::Fork, the copy of the parent's pages into the new child, whose
\* address pool and page directory are fresh.
CallCopyMemTo ==
    /\ ~panic
    /\ mem.vrBits["chld"] = {}
    /\ ~mem.pde["chld"]
    /\ PoolReturn(CopyEach(mem, mem.vrBits["usr"], 0), "fork", "chld")
    /\ UNCHANGED <<blocks, schedVars, syncVars, pc, mloc, nonMemVars>>

PoolInit ==
    /\ InitTwoStarted
    /\ InitSync
    /\ InitQueue
    /\ InitDisk
    /\ InitMem
    /\ InitMore

PoolNext ==
    \/ \E vp \in {"krnl", "usr"}, count \in 1..MaxCount : CallAllocPages(vp, count)
    \/ \E vp \in {"krnl", "usr"}, v \in 0..(VrPages - 1) : CallAllocPageAtAddr(vp, v)
    \/ \E b \in blocks : CallFreePages(b)
    \/ CallCopyMemTo

PoolSpec == PoolInit /\ [][PoolNext]_vars

\* What an allocation in the address pool vp works on: the address pool, the
\* physical pool behind it and the pages that are mapped.
PoolView(m, vp) ==
    [vrBits |-> m.vrBits[vp], vrFree |-> m.vrFree[vp],
     phyBits |-> m.phyBits[PhyOf(vp)], phyFree |-> m.phyFree[PhyOf(vp)],
     map |-> [v \in 0..(VrPages - 1) |-> IF IsMapped(m, vp, v) THEN m.pteAddr[vp][v] ELSE NoPos]]

\* C8: an AllocPages call that returns null leaves the address pool, the
\* physical pool and the mappings as they were before the call.
C8_FailedAllocRestores ==
    [][(last'.op = "alloc_pages" /\ last'.res = NoPos /\ ~panic')
          => PoolView(mem', last'.vp) = PoolView(mem, last'.vp)]_vars

\* C9: for every pool, virtual or physical, the set bits of the bitmap and
\* free_count_ add up to the capacity.
C9_BitsPlusFreeIsCapacity ==
    /\ \A vp \in VrPools : Cardinality(mem.vrBits[vp]) + mem.vrFree[vp] = VrPages
    /\ \A pp \in PhyPools : Cardinality(mem.phyBits[pp]) + mem.phyFree[pp] = PhyPages

\* ------------------------------------------- the concurrent pool scenario
\* Two threads call mem::AllocPages(type, 1) and mem::FreePages(vr_base, 1);
\* the clock may switch threads wherever interrupts are enabled, so each
\* call is split where it reads or writes the pools and the page tables.

\* The mutex a call takes: the one of the physical pool of its type.
CallMutex(t) == PoolMutex(PhyOf(mloc[t].vp))

\* A thread enters mem::AllocPages(type, 1).
MemCallAlloc(t, vp) ==
    /\ ~panic
    /\ cur = t
    /\ pc[t] = "run"
    /\ mloc' = [mloc EXCEPT ![t] = [NoLoc EXCEPT !.op = "alloc", !.vp = vp]]
    /\ pc' = [pc EXCEPT ![t] = "m_lock"]
    /\ UNCHANGED <<schedVars, syncVars, panic, mem, blocks, last, nonMemVars>>

\* A thread enters mem::FreePages(vr_base, 1) with a page it was given.
MemCallFree(t, b) ==
    /\ ~panic
    /\ cur = t
    /\ pc[t] = "run"
    /\ b \in blocks
    /\ blocks' = blocks \ {b}
    /\ mloc' = [mloc EXCEPT ![t] = [NoLoc EXCEPT !.op = "free", !.vp = b.vp, !.va = b.base]]
    /\ pc' = [pc EXCEPT ![t] = "m_lock"]
    /\ UNCHANGED <<schedVars, syncVars, panic, mem, last, nonMemVars>>

\* const stl::lock_guard guard {mem_pool.GetLock()}
MemLock(t) ==
    /\ MutexLock(t, CallMutex(t), "m_lock", "m_dec", "m_in")
    /\ UNCHANGED <<memVars, nonMemVars>>

MemLockDecrease(t) ==
    /\ SemDecrease(t, CallMutex(t), "m_dec", "m_lwait", "m_got")
    /\ UNCHANGED <<memVars, nonMemVars>>

MemLocked(t) ==
    /\ MutexLocked(t, CallMutex(t), "m_got", "m_in")
    /\ UNCHANGED <<memVars, nonMemVars>>

\* AllocPages(mem_pool, addr_pool, 1): addr_pool.AllocPages(1).
MemVrAlloc(t) ==
    /\ ~panic
    /\ cur = t
    /\ pc[t] = "m_in"
    /\ mloc[t].op = "alloc"
    /\ LET a == VrAllocPages(mem, mloc[t].vp, 1)
       IN /\ panic' = a.bad
          /\ mem' = a.m
          /\ mloc' = [mloc EXCEPT ![t].va = a.res]
          /\ pc' = [pc EXCEPT ![t] = IF a.bad THEN @
                                      ELSE IF a.res = NoPos THEN "m_unlock" ELSE "m_find"]
    /\ UNCHANGED <<schedVars, syncVars, blocks, last, nonMemVars>>

\* mem_pool.AllocPages(): Bitmap::Alloc looks for a clear bit; with none the
\* call returns null (i = 0: nothing is freed).
MemPhyFind(t) ==
    /\ ~panic
    /\ cur = t
    /\ pc[t] = "m_find"
    /\ LET f == PhyFind(mem, PhyOf(mloc[t].vp))
       IN /\ mloc' = [mloc EXCEPT ![t].bit = f]
          /\ pc' = [pc EXCEPT ![t] = IF f = NoPos THEN "m_unlock" ELSE "m_set"]
    /\ UNCHANGED <<schedVars, syncVars, panic, mem, blocks, last, nonMemVars>>

\* mem_pool.AllocPages(): Bitmap::Set on the bit found, and free_count_.
MemPhySet(t) ==
    /\ ~panic
    /\ cur = t
    /\ pc[t] = "m_set"
    /\ LET s == PhySet(mem, PhyOf(mloc[t].vp), mloc[t].bit)
       IN /\ panic' = s.bad
          /\ mem' = s.m
          /\ pc' = [pc EXCEPT ![t] = IF s.bad THEN @ ELSE "m_map"]
    /\ UNCHANGED <<schedVars, syncVars, blocks, last, mloc, nonMemVars>>

\* VrAddr::MapToPhyAddr with the page table present: the entry is set and
\* AllocPages returns the page.  Without a page table the thread goes on to
\* allocate one.
MemMap(t) ==
    /\ ~panic
    /\ cur = t
    /\ pc[t] = "m_map"
    /\ IF mem.pde[mloc[t].vp]
          THEN LET e == SetPageTabEntry(mem, mloc[t].vp, mloc[t].va, mloc[t].bit)
               IN /\ panic' = e.bad
                  /\ mem' = e.m
                  /\ blocks' = IF e.bad THEN blocks
                               ELSE blocks \cup {[vp |-> mloc[t].vp, base |-> mloc[t].va, count |-> 1]}
                  /\ pc' = [pc EXCEPT ![t] = IF e.bad THEN @ ELSE "m_unlock"]
          ELSE /\ pc' = [pc EXCEPT ![t] = "m_ptfind"]
               /\ UNCHANGED <<panic, mem, blocks>>
    /\ UNCHANGED <<schedVars, syncVars, last, mloc, nonMemVars>>

\* VrAddr::MapToPhyAddr: GetPhyMemPagePool(PoolType::Kernel).AllocPages(),
\* the search of Bitmap::Alloc, and AssertAlloc when it finds nothing.
MemPtFind(t) ==
    /\ ~panic
    /\ cur = t
    /\ pc[t] = "m_ptfind"
    /\ LET pt == PhyFind(mem, "krnl")
       IN /\ panic' = (pt = NoPos)
          /\ mloc' = [mloc EXCEPT ![t].tab = pt]
          /\ pc' = [pc EXCEPT ![t] = IF pt = NoPos THEN @ ELSE "m_ptset"]
    /\ UNCHANGED <<schedVars, syncVars, mem, blocks, last, nonMemVars>>

\* VrAddr::MapToPhyAddr from Bitmap::Set of the page table's frame on: the
\* directory entry, the cleared table and the entry of the page.
MemPtSet(t) ==
    /\ ~panic
    /\ cur = t
    /\ pc[t] = "m_ptset"
    /\ LET n == NewPageTab(mem, mloc[t].vp, mloc[t].tab)
           e == SetPageTabEntry(n.m, mloc[t].vp, mloc[t].va, mloc[t].bit)
           bad == n.bad \/ e.bad
       IN /\ panic' = bad
          /\ mem' = IF bad THEN mem ELSE e.m
          /\ blocks' = IF bad THEN blocks
                       ELSE blocks \cup {[vp |-> mloc[t].vp, base |-> mloc[t].va, count |-> 1]}
          /\ pc' = [pc EXCEPT ![t] = IF bad THEN @ ELSE "m_unlock"]
    /\ UNCHANGED <<schedVars, syncVars, last, mloc, nonMemVars>>

\* FreePages(mem_pool, addr_pool, vr_base, 1)
MemFree(t) ==
    /\ ~panic
    /\ cur = t
    /\ pc[t] = "m_in"
    /\ mloc[t].op = "free"
    /\ mem' = FreePages(mem, mloc[t].vp, mloc[t].va, 1)
    /\ pc' = [pc EXCEPT ![t] = "m_unlock"]
    /\ UNCHANGED <<schedVars, syncVars, panic, blocks, last, mloc, nonMemVars>>

\* The lock_guard goes out of scope.
MemUnlock(t) ==
    /\ MutexUnlock(t, CallMutex(t), "m_unlock", "m_inc", "run")
    /\ UNCHANGED <<memVars, nonMemVars>>

MemUnlocked(t) ==
    /\ MutexUnlocked(t, CallMutex(t), "m_inc", "run")
    /\ mloc' = [mloc EXCEPT ![t] = IF panic' THEN @ ELSE NoLoc]
    /\ UNCHANGED <<mem, blocks, last, nonMemVars>>

MemInit ==
    /\ InitTwoStarted
    /\ InitSync
    /\ InitQueue
    /\ InitDisk
    /\ InitMem
    /\ InitMore

\* The idle thread blocks once and is not woken: a thread in the allocator
\* waits only for a mutex whose holder is ready or running.
MemNext ==
    \/ Tick
    \/ IdleBlock
    \/ \E t \in Workers, vp \in {"krnl", "usr"} : MemCallAlloc(t, vp)
    \/ \E t \in Workers, b \in blocks : MemCallFree(t, b)
    \/ \E t \in Workers : MemLock(t)
    \/ \E t \in Workers : MemLockDecrease(t)
    \/ \E t \in Workers : MemLocked(t)
    \/ \E t \in Workers : MemVrAlloc(t)
    \/ \E t \in Workers : MemPhyFind(t)
    \/ \E t \in Workers : MemPhySet(t)
    \/ \E t \in Workers : MemMap(t)
    \/ \E t \in Workers : MemPtFind(t)
    \/ \E t \in Workers : MemPtSet(t)
    \/ \E t \in Workers : MemFree(t)
    \/ \E t \in Workers : MemUnlock(t)
    \/ \E t \in Workers : MemUnlocked(t)

MemSpec == MemInit /\ [][MemNext]_vars

\* The pages mapped to frame f of the physical pool pp.
FramePages(pp, f) ==
    {<<vp, v>> \in VrPools \X (0..(VrPages - 1)) :
        PhyOf(vp) = pp /\ IsMapped(mem, vp, v) /\ mem.pteAddr[vp][v] = f}

\* The page tables (allocated by MapToPhyAddr) that lie in frame f of pp.
FrameTabs(pp, f) ==
    {vp \in VrPools \ {"krnl"} : pp = "krnl" /\ mem.pde[vp] /\ mem.pdeAddr[vp] = f}

\* The threads that PhyMemPagePool::AllocPages has given frame f of pp and
\* that have not mapped it yet.
FrameThreads(pp, f) ==
    {t \in Workers : /\ pc[t] \in {"m_map", "m_ptfind", "m_ptset"}
                     /\ PhyOf(mloc[t].vp) = pp
                     /\ mloc[t].bit = f}

\* A thread between the search and the update of a physical pool's bitmap
\* holds the mutex of that pool.
BitmapUnderLock ==
    \A t \in Workers :
        /\ pc[t] \in {"m_find", "m_set"} => holder[CallMutex(t)] = t
        /\ (pc[t] = "m_in" /\ mloc[t].op = "free") => holder[CallMutex(t)] = t
        /\ pc[t] \in {"m_ptfind", "m_ptset"} => holder[PoolMutex("krnl")] = t

\* No frame has two owners.
OneOwner ==
    \A pp \in PhyPools, f \in 0..(PhyPages - 1) :
        Cardinality(FramePages(pp, f)) + Cardinality(FrameTabs(pp, f))
            + Cardinality(FrameThreads(pp, f)) <= 1

\* C7: every allocation from and release to a physical pool's bitmap, the
\* page table's frame of MapToPhyAddr included, is made by a thread that holds
\* the mutex of that pool, and no frame has two owners at the same time.
C7_PoolBitmapUnderOwnMutex == BitmapUnderLock /\ OneOwner


\* --------------------------------------------- claims on the scheduler

\* C1: in every reachable state the ready list holds no thread twice and no
\* thread whose status is Running.
C1_ReadyListInvariant ==
    /\ NoDuplicates(ready)
    /\ \A i \in 1..Len(ready) : status[ready[i]] # "Running"

\* C1, its case: two threads wait on the ready list while a third thread is
\* blocked, after threads were started, preempted and blocked.
C1_Witness ==
    /\ Len(ready) >= 2
    /\ \E t \in Workers : status[t] \in BlockedStates

\* A thread owns the mutex "m" from the return of Semaphore::Decrease in Lock
\* to the call of Semaphore::Increase in Unlock.
Owns(t) == depth[t] > 0 \/ pc[t] \in {"lock_got", "unlock_inc"}

\* C2: at most one thread owns the mutex; while a thread's locks outnumber its
\* unlocks it is the holder with that depth and the mutex is not available;
\* the holder is cleared exactly when the depth is 0.
C2_MutexExclusion ==
    /\ \A t, u \in Workers : (Owns(t) /\ Owns(u)) => t = u
    /\ \A t \in Workers : depth[t] > 0 => (holder["m"] = t /\ repeat["m"] = depth[t])
    /\ \A t \in Workers : depth[t] = 0 => holder["m"] # t
    /\ (\E t \in Workers : Owns(t)) <=> semVal["m"] = 0
    /\ holder["m"] = NoThread <=> repeat["m"] = 0

\* C2, its case: a thread holds the mutex twice over while another thread
\* waits for it in Lock.
C2_Witness ==
    \E t, u \in Workers :
        /\ t # u
        /\ depth[t] = 2
        /\ pc[u] = "lock_wait"
        /\ Find(semWait["m"], u)

\* The step of thread t that runs Semaphore::Increase on "s".
IncreaseStep(t) == pc[t] = "sem_inc" /\ pc'[t] = "run"

\* C3 as amended: Increase does nothing when the value is max, whether threads
\* wait or not; below max it detaches and unblocks the first waiter, if any,
\* and then increases the value.
C3_IncreaseBelowMaxOnly ==
    [][\A t \in Workers : IncreaseStep(t) =>
          IF semVal["s"] < SemMax
             THEN /\ semVal'["s"] = semVal["s"] + 1
                  /\ IF semWait["s"] # <<>>
                        THEN /\ semWait'["s"] = Tail(semWait["s"])
                             /\ status'[Head(semWait["s"])] = "Ready"
                             /\ ready' = <<Head(semWait["s"])>> \o ready
                        ELSE UNCHANGED <<semWait, status, ready>>
             ELSE UNCHANGED <<semVal, semWait, status, ready>>]_vars

\* C3 as stated: Increase detaches and unblocks the first waiter whatever the
\* value is, and afterwards increases the value only below max.
C3_IncreaseWakesRegardless ==
    [][\A t \in Workers : IncreaseStep(t) =>
          /\ semWait["s"] # <<>> =>
                /\ semWait'["s"] = Tail(semWait["s"])
                /\ status'[Head(semWait["s"])] = "Ready"
          /\ semVal'["s"] = IF semVal["s"] < SemMax THEN semVal["s"] + 1
                                                   ELSE semVal["s"]]_vars

\* C3, its case: the value is max while a thread still waits, and a thread is
\* about to run Increase.
C3_Witness ==
    /\ semVal["s"] = SemMax
    /\ semWait["s"] # <<>>
    /\ pc[cur] = "sem_inc"

\* C10: a thread that Unblock releases enters the ready list at the front, so
\* ahead of every thread already on it; threads leave the list only from the
\* front, by being dispatched, and never overtake a thread ahead of them.
C10_UnblockedRunsFirst ==
    [][/\ \A t \in Threads :
             (status[t] \in BlockedStates /\ status'[t] = "Ready")
                => ready' = <<t>> \o ready
       /\ \A i, j \in 1..Len(ready) :
             i < j =>
                /\ status'[ready[j]] # "Running"
                /\ Find(ready', ready[j])
                /\ \/ status'[ready[i]] = "Running" /\ ~Find(ready', ready[i])
                   \/ /\ Find(ready', ready[i])
                      /\ IndexOf(ready', ready[i]) < IndexOf(ready', ready[j])]_vars

\* C10, its case: a thread woken from a semaphore wait is at the front of the
\* ready list, ahead of a worker that was ready before it.
C10_Witness ==
    /\ Len(ready) >= 2
    /\ pc[ready[1]] \in {"lock_wait", "sem_wait"}
    /\ status[ready[1]] = "Ready"
    /\ ready[2] \in Workers

\* A thread that Unblock (called by Semaphore::Increase) has released from a
\* semaphore wait and that has not been dispatched since: it is Ready and
\* still inside the loop of Semaphore::Decrease.
Released(t) == status[t] = "Ready" /\ pc[t] \in {"lock_wait", "sem_wait"}

\* Thread b is released by Unblock in this step.
UnblockStep(b) == status[b] \in BlockedStates /\ status'[b] = "Ready"

\* C11 as stated: threads released by Unblock are dispatched in the order of
\* their release: a thread b released while an earlier released thread a has
\* not been dispatched yet stands behind a on the ready list.
C11_UnblockedFifo ==
    [][\A a, b \in Workers :
          (a # b /\ Released(a) /\ UnblockStep(b))
             => IndexOf(ready', a) < IndexOf(ready', b)]_vars

\* C11 as amended: a thread that joins the ready list without having been
\* blocked (Start, Fork, Yield, the clock) joins at the tail, so these threads
\* are dispatched in the order they joined; a thread released by Unblock
\* stands ahead of every thread released before it and not dispatched yet, so
\* these threads are dispatched latest release first.
C11_PushedFifoUnblockedLifo ==
    [][/\ \A b \in Threads :
             (~Find(ready, b) /\ Find(ready', b) /\ status[b] \notin BlockedStates)
                => ready'[Len(ready')] = b
       /\ \A a, b \in Workers :
             (a # b /\ Released(a) /\ UnblockStep(b))
                => /\ Find(ready', a)
                   /\ Find(ready', b)
                   /\ IndexOf(ready', b) < IndexOf(ready', a)]_vars

\* C11, its case: two threads released by Unblock one after the other, neither
\* dispatched yet.
C11_Witness ==
    \E a, b \in Workers : a # b /\ Released(a) /\ Released(b)

\* ------------------------------------------------- the time slice scenario
\* Two threads compute, yield and block; the clock interrupts them.  run
\* counts the clock interrupts the current thread has taken since it was
\* dispatched, and records whether it was dispatched with all its slices.

\* The run of the thread that Schedule has dispatched begins.
Dispatched(r) == [n |-> 0, full |-> r.tk[r.cur] = MaxTicks]

\* ClockIntrHandler: Thread::Tick takes a slice and returns true, or Schedule
\* runs when no slice is left.
SliceTick ==
    /\ ~panic
    /\ IntrEnabled(cur)
    /\ IF ticks[cur] # 0
          THEN /\ ticks' = [ticks EXCEPT ![cur] = @ - 1]
               /\ run' = [run EXCEPT !.n = @ + 1]
               /\ UNCHANGED <<status, ready, cur>>
          ELSE IF ScheduleOk(status, ready, cur)
                  THEN /\ Switch(Schedule(status, ready, ticks, cur))
                       /\ run' = Dispatched(Schedule(status, ready, ticks, cur))
                  ELSE UNCHANGED <<schedVars, run>>
    /\ panic' = (ticks[cur] = 0 /\ ~ScheduleOk(status, ready, cur))
    /\ UNCHANGED <<pc, depth, syncVars, queueVars, diskVars, memVars, intr, guards, fk, part, vol, heap, ide>>

\* Thread::Yield
SliceYield(t) ==
    /\ ~panic
    /\ cur = t
    /\ pc[t] = "run"
    /\ IF ~Find(ready, t)
          THEN /\ Switch(Schedule([status EXCEPT ![t] = "Ready"], PushBack(ready, t), ticks, t))
               /\ run' = Dispatched(Schedule([status EXCEPT ![t] = "Ready"],
                                             PushBack(ready, t), ticks, t))
               /\ UNCHANGED panic
          ELSE /\ panic' = TRUE
               /\ UNCHANGED <<schedVars, run>>
    /\ UNCHANGED <<pc, depth, syncVars, queueVars, diskVars, memVars, intr, guards, fk, part, vol, heap, ide>>

\* Thread::Block(s) called by a thread on itself.
SliceBlock(t, s) ==
    /\ ~panic
    /\ cur = t
    /\ pc[t] = "run"
    /\ IF ScheduleOk([status EXCEPT ![t] = s], ready, t)
          THEN /\ Switch(Block(status, ready, ticks, t, s))
               /\ run' = Dispatched(Block(status, ready, ticks, t, s))
               /\ pc' = [pc EXCEPT ![t] = "parked"]
               /\ UNCHANGED panic
          ELSE /\ panic' = TRUE
               /\ UNCHANGED <<schedVars, pc, run>>
    /\ UNCHANGED <<depth, syncVars, queueVars, diskVars, memVars, intr, guards, fk, part, vol, heap, ide>>

\* Idle: Block(Blocked)
SliceIdleBlock ==
    /\ ~panic
    /\ cur = IdleThread
    /\ pc[IdleThread] = "idle_block"
    /\ Switch(Block(status, ready, ticks, IdleThread, "Blocked"))
    /\ run' = Dispatched(Block(status, ready, ticks, IdleThread, "Blocked"))
    /\ pc' = [pc EXCEPT ![IdleThread] = "idle_halt"]
    /\ UNCHANGED <<depth, syncVars, panic, queueVars, diskVars, memVars, intr, guards, fk, part, vol, heap, ide>>

SliceInit ==
    /\ InitTwoStarted
    /\ InitSync
    /\ InitQueue
    /\ InitDisk
    /\ InitMem
    /\ InitMore

SliceNext ==
    \/ SliceTick
    \/ SliceIdleBlock
    \/ IdleWake
    \/ \E t \in Workers : SliceYield(t)
    \/ \E t \in Workers, s \in BlockedStates : SliceBlock(t, s)
    \/ \E t, u \in Workers : ThreadUnblock(t, u)

SliceSpec == SliceInit /\ [][SliceNext]_vars

\* C12: a thread dispatched with all its slices (its priority p) has taken
\* fewer than p clock interrupts while it still runs: the p-th one, at the
\* latest, has invoked Schedule.
C12_AtMostPriorityTicks == run.full => run.n < MaxTicks

\* The current thread calls Thread::Block in this step: a worker ends up in a
\* blocked status, or the idle thread passes the Block of its loop.
BlockStep ==
    \/ status'[cur] \in BlockedStates
    \/ cur = IdleThread /\ pc[cur] = "idle_block" /\ pc'[cur] = "idle_halt"

\* C13: whenever no thread is ready and the idle thread is not the one that
\* runs, the idle thread is blocked, so that Schedule may unblock it; and a
\* Schedule that finds the ready list empty dispatches the idle thread.
C13_IdleWhenNothingReady ==
    [][/\ (ready = <<>> /\ cur # IdleThread) => status[IdleThread] \in BlockedStates
       /\ (ready = <<>> /\ BlockStep)
             => (~panic' /\ cur' = IdleThread /\ status'[IdleThread] = "Running")]_vars

\* C13, its case: every thread but the idle thread is blocked or was never
\* started, nothing is ready, and the idle thread has been dispatched.
C13_Witness ==
    /\ ready = <<>>
    /\ cur = IdleThread
    /\ status[IdleThread] = "Running"
    /\ \E w \in Workers : status[w] \in BlockedStates

\* ------------------------------------------------- the IntrGuard scenario
\* Threads open and close IntrGuard scopes, block inside and outside them and
\* unblock each other; the clock interrupts whenever interrupts are enabled.
\* A thread that is switched to goes on where it was switched out: in the
\* clock's handler ("in_isr"), in Thread::Block ("in_block"), or at
\* StartupCallback ("started").

\* What the scenario leaves alone.
nonGuardVars == <<depth, syncVars, queueVars, diskVars, memVars, run, fk, part, vol, heap, ide>>

\* ~IntrGuard that enables interrupts whatever the guard has recorded.
GuardExitAlwaysEnable(t) ==
    /\ ~panic
    /\ cur = t
    /\ pc[t] = "run"
    /\ guards[t] # <<>>
    /\ guards' = [guards EXCEPT ![t] = SubSeq(@, 1, Len(@) - 1)]
    /\ intr' = TRUE
    /\ UNCHANGED <<schedVars, pc, panic, nonGuardVars>>

\* IntrGuard::IntrGuard: enabled_ records the interrupt state, and interrupts
\* are disabled.
GuardEnter(t) ==
    /\ ~panic
    /\ cur = t
    /\ pc[t] = "run"
    /\ Len(guards[t]) < MaxDepth
    /\ guards' = [guards EXCEPT ![t] = Append(@, intr)]
    /\ intr' = FALSE
    /\ UNCHANGED <<schedVars, pc, panic, nonGuardVars>>

\* IntrGuard::~IntrGuard of the innermost guard: interrupts are enabled if
\* enabled_ says they were.
GuardExit(t) ==
    /\ ~panic
    /\ cur = t
    /\ pc[t] = "run"
    /\ guards[t] # <<>>
    /\ guards' = [guards EXCEPT ![t] = SubSeq(@, 1, Len(@) - 1)]
    /\ intr' = IF guards[t][Len(guards[t])] THEN TRUE ELSE intr
    /\ UNCHANGED <<schedVars, pc, panic, nonGuardVars>>

\* Thread::Block up to SwitchThread: its IntrGuard, the status, Schedule.
\* The idle thread does nothing else.
GuardBlock(t) ==
    /\ ~panic
    /\ cur = t
    /\ pc[t] = "run"
    /\ t = IdleThread => guards[t] = <<>>
    /\ IF ScheduleOk([status EXCEPT ![t] = "Blocked"], ready, t)
          THEN /\ guards' = [guards EXCEPT ![t] = Append(@, intr)]
               /\ intr' = FALSE
               /\ Switch(Block(status, ready, ticks, t, "Blocked"))
               /\ pc' = [pc EXCEPT ![t] = "in_block"]
               /\ UNCHANGED panic
          ELSE /\ panic' = TRUE
               /\ UNCHANGED <<schedVars, pc, intr, guards>>
    /\ UNCHANGED nonGuardVars

\* Thread::Unblock(u) by the current thread; its IntrGuard opens and closes
\* within the step.
GuardUnblock(t, u) ==
    /\ ~panic
    /\ cur = t
    /\ pc[t] = "run"
    /\ t # u
    /\ pc[u] = "in_block"
    /\ status[u] \in BlockedStates
    /\ IF UnblockOk(status, ready, u)
          THEN /\ status' = Unblock(status, ready, u).st
               /\ ready' = Unblock(status, ready, u).rd
               /\ UNCHANGED panic
          ELSE /\ panic' = TRUE
               /\ UNCHANGED <<status, ready>>
    /\ UNCHANGED <<cur, ticks, pc, intr, guards, nonGuardVars>>

\* The clock interrupts the current thread, which is possible only with
\* interrupts enabled; the CPU disables them for the handler.  Thread::Tick
\* takes a slice and iret enables them again, or Schedule switches threads.
GuardTick ==
    /\ ~panic
    /\ intr
    /\ IF ticks[cur] # 0
          THEN /\ ticks' = [ticks EXCEPT ![cur] = @ - 1]
               /\ UNCHANGED <<status, ready, cur, pc, intr, panic>>
          ELSE IF ScheduleOk(status, ready, cur)
                  THEN /\ Switch(Schedule(status, ready, ticks, cur))
                       /\ pc' = [pc EXCEPT ![cur] = "in_isr"]
                       /\ intr' = FALSE
                       /\ UNCHANGED panic
                  ELSE /\ panic' = TRUE
                       /\ UNCHANGED <<schedVars, pc, intr>>
    /\ UNCHANGED <<guards, nonGuardVars>>

\* The thread that has been switched to goes on: StartupCallback enables
\* interrupts; the clock's handler returns with iret, which restores the
\* flags of the interrupted code; Thread::Block returns through the
\* destructor of its IntrGuard; the idle thread then enables interrupts and
\* halts.
GuardResume(t) ==
    /\ ~panic
    /\ cur = t
    /\ pc[t] \in {"started", "in_isr", "in_block", "idle_enable"}
    /\ IF pc[t] = "in_block"
          THEN /\ guards' = [guards EXCEPT ![t] = SubSeq(@, 1, Len(@) - 1)]
               /\ intr' = IF guards[t][Len(guards[t])] THEN TRUE ELSE intr
               /\ pc' = [pc EXCEPT ![t] = IF t = IdleThread THEN "idle_enable" ELSE "run"]
          ELSE /\ intr' = TRUE
               /\ pc' = [pc EXCEPT ![t] = "run"]
               /\ UNCHANGED guards
    /\ UNCHANGED <<schedVars, panic, nonGuardVars>>

\* The main thread runs, a second thread and the idle thread have been
\* started and have not run yet.
GuardInit ==
    /\ status = [t \in Threads |->
                    IF t = MainThread THEN "Running"
                    ELSE IF t = "t3" THEN "Died" ELSE "Ready"]
    /\ ready = <<"t2", IdleThread>>
    /\ cur = MainThread
    /\ ticks = [t \in Threads |-> MaxTicks]
    /\ pc = [t \in Threads |->
                IF t = MainThread THEN "run"
                ELSE IF t = "t3" THEN "new" ELSE "started"]
    /\ depth = [t \in Threads |-> 0]
    /\ panic = FALSE
    /\ InitSync
    /\ InitQueue
    /\ InitDisk
    /\ InitMem
    /\ InitMore

GuardNext ==
    \/ GuardTick
    \/ \E t \in Workers : GuardEnter(t)
    \/ \E t \in Workers : GuardExit(t)
    \/ \E t \in Threads : GuardBlock(t)
    \/ \E t, u \in Workers : GuardUnblock(t, u)
    \/ \E t \in Threads : GuardResume(t)

GuardSpec == GuardInit /\ [][GuardNext]_vars

\* C14: while the running thread is inside an IntrGuard scope, however deep
\* and whether or not it has blocked and been resumed inside it, interrupts
\* are disabled; and the destruction of a thread's outermost guard leaves
\* interrupts as they were when that guard was constructed.
C14_GuardScopesKeepIntrOff ==
    [][/\ guards[cur] # <<>> => ~intr
       /\ guards'[cur'] # <<>> => ~intr'
       /\ \A t \in Threads :
             (Len(guards[t]) = 1 /\ guards'[t] = <<>>) => intr' = guards[t][1]]_vars

\* C14, its case: a thread that blocked inside two nested scopes, entered with
\* interrupts enabled, has been resumed and is about to return from Block.
C14_Witness ==
    \E t \in Workers :
        /\ cur = t
        /\ status[t] = "Running"
        /\ pc[t] = "in_block"
        /\ Len(guards[t]) = MaxDepth + 1
        /\ guards[t][1]

\* ------------------------------------------------------ the fork scenario
\* A user process allocates pages and writes to them, forks once, and goes on
\* allocating and writing.  Process::Fork runs with interrupts disabled.  Of
\* the kernel pages Fork takes, the model counts the child's page table only.

\* What the fork scenario leaves alone.
nonForkVars ==
    <<schedVars, syncVars, pc, depth, queueVars, diskVars, blocks, last, mloc, run, intr, guards, part,
      vol, heap, ide>>

\* CopyMemTo that maps the child's page to the parent's frame.
SharePage(st, i) ==
    IF ~IsMapped(st.m, "usr", i)
       THEN [st EXCEPT !.bad = TRUE]
       ELSE LET a == VrAllocPageAtAddr(st.m, "chld", i)
                r == MapToPhyAddr(a.m, "chld", i, st.m.pteAddr["usr"][i])
            IN IF a.bad \/ r.bad
                  THEN [st EXCEPT !.bad = TRUE]
                  ELSE [m |-> r.m, data |-> st.data, bad |-> FALSE]

\* Process::CopyMemTo, one allocated page i of the parent: its content goes to
\* the kernel buffer, the child gets a page at the same address, and the
\* buffer goes to that page.  Reading a page of the parent that is not
\* mapped, or writing to the child's page when AllocPageAtAddr has returned
\* null, is a page fault, on which the kernel halts as on a failed assertion.
CopyPage(st, i) ==
    IF ~IsMapped(st.m, "usr", i)
       THEN [st EXCEPT !.bad = TRUE]
       ELSE LET r == AllocPageAtAddr(st.m, "chld", i)
            IN IF r.bad \/ r.res = NoPos
                  THEN [st EXCEPT !.bad = TRUE]
                  ELSE [m |-> r.m,
                        data |-> [st.data EXCEPT ![r.m.pteAddr["chld"][i]] =
                                                     st.data[st.m.pteAddr["usr"][i]]],
                        bad |-> FALSE]

RECURSIVE ForkCopyEach(_, _, _)
\* Process::CopyMemTo, its loop from page i on over the parent's bitmap.
ForkCopyEach(st, bits, i) ==
    IF i = VrPages \/ st.bad
       THEN st
       ELSE ForkCopyEach(IF i \in bits THEN CopyPage(st, i) ELSE st, bits, i + 1)

\* mem::AllocPages(PoolType::User, count) by the parent: the pages hold what
\* their frames held.
ForkAlloc(count) ==
    /\ ~panic
    /\ LET r == AllocPages(mem, "usr", count)
       IN /\ panic' = r.bad
          /\ mem' = IF r.bad THEN mem ELSE r.m
    /\ UNCHANGED <<fk, nonForkVars>>

\* mem::FreePages(PoolType::User, base, 1) by the parent, of a page that
\* AllocPages has returned.
ForkFree(base) ==
    /\ ~panic
    /\ IsMapped(mem, "usr", base)
    /\ mem' = FreePages(mem, "usr", base, 1)
    /\ UNCHANGED <<fk, panic, nonForkVars>>

\* The parent writes val to its page v.
ForkWrite(v, val) ==
    /\ ~panic
    /\ IsMapped(mem, "usr", v)
    /\ fk' = [fk EXCEPT !.data[mem.pteAddr["usr"][v]] = val]
    /\ UNCHANGED <<mem, panic, nonForkVars>>

\* Process::Fork, the copy of the parent's memory into the child, whose
\* address pool and page directory are fresh.  With busy the user pool's
\* mutex is held by a preempted thread: the caller blocks in Mutex::Lock, is
\* switched back to with its own page directory loaded (LoadKrnlEnv), and
\* AllocPageAtAddr finds the page mapped: its assertion fails.
ForkCopy(busy) ==
    /\ ~panic
    /\ ~fk.forked
    /\ mem.vrBits["chld"] = {}
    /\ ~mem.pde["chld"]
    /\ busy => mem.vrBits["usr"] # {}
    /\ LET r == IF busy
                   THEN [m |-> mem, data |-> fk.data, bad |-> TRUE]
                   ELSE ForkCopyEach([m |-> mem, data |-> fk.data, bad |-> FALSE],
                                     mem.vrBits["usr"], 0)
       IN /\ panic' = r.bad
          /\ mem' = IF r.bad THEN mem ELSE r.m
          /\ fk' = IF r.bad
                      THEN fk
                      ELSE [data |-> r.data,
                            snap |-> [v \in 0..(VrPages - 1) |->
                                         IF v \in mem.vrBits["usr"]
                                            THEN fk.data[mem.pteAddr["usr"][v]]
                                            ELSE NoPos],
                            forked |-> TRUE]
    /\ UNCHANGED nonForkVars

ForkInit ==
    /\ InitTwoStarted
    /\ InitSync
    /\ InitQueue
    /\ InitDisk
    /\ InitMem
    /\ InitMore

ForkNext ==
    \/ \E count \in 1..MaxCount : ForkAlloc(count)
    \/ \E base \in 0..(VrPages - 1) : ForkFree(base)
    \/ \E v \in 0..(VrPages - 1), val \in PageValues : ForkWrite(v, val)
    \/ \E busy \in BOOLEAN : ForkCopy(busy)

ForkSpec == ForkInit /\ [][ForkNext]_vars

nonPartVars ==
    <<schedVars, syncVars, pc, depth, queueVars, diskVars, memVars, run, intr, guards, fk, vol,
      heap, ide>>

\* The flags a caller opens with: ReadOnly is no bit at all.
OpenFlags ==
    {{}, {"WriteOnly"}, {"ReadWrite"}, {"CreateNew"}, {"CreateNew", "ReadWrite"}}

\* flags.IsSet(WriteOnly) || flags.IsSet(ReadWrite)
IsWrite(flags) == "WriteOnly" \in flags \/ "ReadWrite" \in flags

\* FileTab::GetFreeDesc: the first entry that is not open, or npos.
GetFreeDesc(p) ==
    IF \E g \in 1..FileCount : ~p.tab[g].open
       THEN Min({g \in 1..FileCount : ~p.tab[g].open})
       ELSE NoPos

\* FileTab::Contain, for the index node of "/x".
Contain(p) == \E g \in 1..FileCount : p.tab[g].open

\* FileDescTab::SyncGlobal: the first free local descriptor takes the global
\* one; with none free the result is invalid and the global entry stays.
SyncGlobal(p, g) ==
    IF \E d \in 1..DescCount : p.descs[d] = NoPos
       THEN LET d == Min({e \in 1..DescCount : p.descs[e] = NoPos})
            IN [p |-> [p EXCEPT !.descs[d] = g], res |-> d, bad |-> FALSE]
       ELSE [p |-> p, res |-> NoPos, bad |-> FALSE]

\* FilePart::OpenNode: one more user of the index node in memory; a node that
\* is not in memory is read from the disk, where write_deny is false.
OpenNode(p) ==
    [p EXCEPT !.open_times = @ + 1,
              !.write_deny = IF p.open_times = 0 THEN FALSE ELSE @]

\* IdxNode::Close
NodeClose(p) == [p EXCEPT !.open_times = @ - 1]

\* FilePart::OpenFile(inode_idx, flags)
OpenFile(p, flags) ==
    LET g == GetFreeDesc(p)
        q == OpenNode(p)
    IN IF g = NoPos
          THEN [p |-> p, res |-> NoPos, bad |-> FALSE]
          ELSE IF IsWrite(flags) /\ q.write_deny
                  THEN [p |-> NodeClose(q), res |-> NoPos, bad |-> FALSE]
                  ELSE SyncGlobal([q EXCEPT !.write_deny = IF IsWrite(flags) THEN TRUE ELSE @,
                                            !.tab[g] = [open |-> TRUE, flags |-> flags, pos |-> 0]],
                                  g)

\* FilePart::CreateFile: a fresh index node and a directory entry; the file
\* table's entry takes the flags, and the node is opened once.
CreateFile(p, flags) ==
    LET g == GetFreeDesc(p)
    IN IF g = NoPos
          THEN [p |-> p, res |-> NoPos, bad |-> FALSE]
          ELSE SyncGlobal([p EXCEPT !.exists = TRUE,
                                    !.size = 0,
                                    !.direct = [i \in 0..(DirectCount - 1) |-> 0],
                                    !.itab = 0,
                                    !.write_deny = FALSE,
                                    !.open_times = 1,
                                    !.tab[g] = [open |-> TRUE, flags |-> flags, pos |-> 0]],
                          g)

\* FilePart::OpenFile(path, flags)
OpenPath(p, flags) ==
    IF (~p.exists /\ "CreateNew" \notin flags) \/ (p.exists /\ "CreateNew" \in flags)
       THEN [p |-> p, res |-> NoPos, bad |-> FALSE]
       ELSE IF p.exists THEN OpenFile(p, flags) ELSE CreateFile(p, flags)

\* fs::File::Close of the entry g of the file table
FileClose(p, g) ==
    IF ~p.tab[g].open
       THEN [p |-> [p EXCEPT !.tab[g] = ClearFile], bad |-> FALSE]
       ELSE IF IsWrite(p.tab[g].flags) /\ ~p.write_deny
               THEN [p |-> p, bad |-> TRUE]
               ELSE [p |-> [NodeClose(p) EXCEPT
                               !.write_deny = IF IsWrite(p.tab[g].flags) THEN FALSE ELSE @,
                               !.tab[g] = ClearFile],
                     bad |-> FALSE]

\* FileDesc::Close of the local descriptor d
DescClose(p, d) ==
    LET r == FileClose(p, p.descs[d])
    IN [p |-> [r.p EXCEPT !.descs[d] = NoPos], res |-> 0, bad |-> r.bad]

\* FilePart::FreeBlock
FreeBlock(p, lba) == [p EXCEPT !.used = @ \ {lba}]

\* FilePart::SyncBlockBitmap and SyncBitmap: the sector of the bitmap that
\* holds the block's bit goes to the disk.
SyncBlockBitmap(p, lba) ==
    LET same(b) == (b - 1) \div BitsPerSector = (lba - 1) \div BitsPerSector
    IN [p EXCEPT !.disk_used = {b \in @ : ~same(b)} \cup {b \in p.used : same(b)}]

\* LoadNodeLbas: the direct blocks, then the single indirect block table as
\* the disk holds it, zero where the index node has no block.
LoadNodeLbas(p) ==
    [i \in 0..(MaxSectors - 1) |->
        IF i < DirectCount
           THEN p.direct[i]
           ELSE IF p.itab = 0
                   THEN 0
                   ELSE IF i - DirectCount + 1 <= Len(p.sect[p.itab])
                           THEN p.sect[p.itab][i - DirectCount + 1]
                           ELSE 0]

RECURSIVE FreeNodeLbas(_, _, _)
\* DeleteNode, the loop over the blocks of the index node.
FreeNodeLbas(p, lbas, i) ==
    IF i = MaxSectors
       THEN p
       ELSE FreeNodeLbas(IF lbas[i] # 0 THEN SyncBlockBitmap(FreeBlock(p, lbas[i]), lbas[i]) ELSE p,
                         lbas, i + 1)

\* FilePart::DeleteNode, the blocks and the single indirect block table.
DeleteNode(p) ==
    LET q == FreeNodeLbas(p, LoadNodeLbas(p), 0)
    IN IF p.itab # 0 THEN SyncBlockBitmap(FreeBlock(q, p.itab), p.itab) ELSE q

\* FilePart::DeleteFile: refused while the file table holds the node;
\* otherwise the directory entry goes and DeleteNode frees the blocks and
\* zero-fills the node.
DeleteFile(p) ==
    IF ~p.exists \/ Contain(p)
       THEN [p |-> p, res |-> FALSE, bad |-> FALSE]
       ELSE [p |-> [DeleteNode(p) EXCEPT !.exists = FALSE,
                                         !.size = 0,
                                         !.direct = [i \in 0..(DirectCount - 1) |-> 0],
                                         !.itab = 0],
             res |-> TRUE, bad |-> FALSE]

\* The call returns, or the kernel halts on a failed assertion.
Returned(r) ==
    /\ panic' = r.bad
    /\ part' = IF r.bad THEN part ELSE r.p
    /\ UNCHANGED nonPartVars

\* sc::File::Open
SysOpen(flags) ==
    /\ ~panic
    /\ Returned(OpenPath(part, flags))

\* sc::File::Close, of a descriptor the process holds
SysClose(d) ==
    /\ ~panic
    /\ part.descs[d] # NoPos
    /\ Returned(DescClose(part, d))

\* sc::File::Delete
SysDelete ==
    /\ ~panic
    /\ Returned(DeleteFile(part))

\* RoundUpDivide
RoundUpDivide(a, b) == (a + b - 1) \div b

\* FilePart::AllocBlock: the first free block, or npos.
AllocBlock(p) ==
    IF \E b \in 1..DiskBlocks : b \notin p.used
       THEN Min({b \in 1..DiskBlocks : b \notin p.used})
       ELSE NoPos

\* The byte i of a sector as it was last written.
SectorByte(sec, i) == IF i <= Len(sec) THEN sec[i] ELSE 0

\* The array lbas as Allocate returns it.
ZeroLbas == [i \in 0..(MaxSectors - 1) |-> 0]

\* disk.ReadSectors(indirect_tab_lba, lbas + direct_block_count, 1)
LoadIndirect(p, lbas) ==
    [i \in 0..(MaxSectors - 1) |->
        IF i >= DirectCount THEN SectorByte(p.sect[p.itab], i - DirectCount + 1) ELSE lbas[i]]

\* disk.WriteSectors(indirect_tab_lba, lbas + direct_block_count, 1)
SaveIndirect(p, lbas) ==
    [p EXCEPT !.sect[p.itab] = [i \in 1..IndirectCount |-> lbas[DirectCount + i - 1]]]

\* The bytes the caller writes when the file holds curr bytes.
Data(curr, n) == [i \in 1..n |-> ((curr + i) % 3) + 1]

RECURSIVE WriteAllocEach(_, _, _)
\* WriteFile, the loop that allocates the blocks i .. nc - 1.
WriteAllocEach(st, i, nc) ==
    IF i = nc \/ st.fail \/ st.bad
       THEN st
       ELSE LET b == AllocBlock(st.p)
            IN IF st.lbas[i] # 0
                  THEN [st EXCEPT !.bad = TRUE]
                  ELSE IF b = NoPos
                          THEN [st EXCEPT !.fail = TRUE]
                          ELSE WriteAllocEach(
                                  [st EXCEPT !.p = SyncBlockBitmap(
                                                      [@ EXCEPT !.used = @ \cup {b},
                                                                !.direct = IF i < DirectCount
                                                                              THEN [@ EXCEPT ![i] = b]
                                                                              ELSE @], b),
                                             !.lbas[i] = b],
                                  i + 1, nc)

RECURSIVE FreeDirectEach(_, _, _)
\* WriteFile, the loop that gives back the direct blocks i .. nc - 1 after a
\* failed allocation.
FreeDirectEach(p, i, nc) ==
    IF i = nc \/ p.direct[i] = 0
       THEN p
       ELSE FreeDirectEach(SyncBlockBitmap(FreeBlock([p EXCEPT !.direct[i] = 0], p.direct[i]),
                                           p.direct[i]),
                           i + 1, nc)

RECURSIVE FreeLbasEach(_, _, _)
\* WriteFile, the loop that gives back the blocks lbas[i .. nc - 1] after a
\* failed allocation.
FreeLbasEach(st, i, nc) ==
    IF i = nc \/ st.lbas[i] = 0 \/ st.bad
       THEN st
       ELSE IF i < DirectCount /\ st.p.direct[i] = 0
               THEN [st EXCEPT !.bad = TRUE]
               ELSE FreeLbasEach(
                       [st EXCEPT !.p = SyncBlockBitmap(
                                           FreeBlock([@ EXCEPT !.direct = IF i < DirectCount
                                                                             THEN [@ EXCEPT ![i] = 0]
                                                                             ELSE @],
                                                     st.lbas[i]),
                                           st.lbas[i])],
                       i + 1, nc)

\* A failure path that leaves the single indirect block table in place.
KeepIndirectTab(st) == st

\* WriteFile, the end of the failure path when this write created the single
\* indirect block table.
FreeIndirectTab(st) ==
    IF st.bad
       THEN st
       ELSE IF st.p.itab = 0
               THEN [st EXCEPT !.bad = TRUE]
               ELSE [st EXCEPT !.p = SyncBlockBitmap(FreeBlock([@ EXCEPT !.itab = 0], st.p.itab),
                                                     st.p.itab)]

\* WriteFile, the collection of the blocks the data goes to.  The result has
\* the partition, the array lbas, bad for a failed assertion and fail for a
\* block that could not be allocated, after the blocks taken so far are freed.
WriteLbas(p, n) ==
    LET curr == p.size
        cc == RoundUpDivide(curr, SectorSize)
        nc == RoundUpDivide(curr + n, SectorSize)
        lastIdx == curr \div SectorSize
        partial == curr % SectorSize # 0
        st0 == [p |-> p, lbas |-> ZeroLbas, bad |-> FALSE, fail |-> FALSE]
        withLast == IF ~partial
                       THEN st0
                       ELSE IF p.direct[lastIdx] = 0
                               THEN [st0 EXCEPT !.bad = TRUE]
                               ELSE [st0 EXCEPT !.lbas[lastIdx] = p.direct[lastIdx]]
        withTab == IF p.itab = 0
                      THEN [st0 EXCEPT !.bad = TRUE]
                      ELSE [st0 EXCEPT !.lbas = LoadIndirect(p, ZeroLbas)]
        saved(st) == IF st.bad
                        THEN st
                        ELSE IF st.fail
                                THEN FreeLbasEach(st, cc, nc)
                                ELSE [st EXCEPT !.p = SaveIndirect(st.p, st.lbas)]
        direct(st) == IF st.bad \/ ~st.fail
                         THEN st
                         ELSE [st EXCEPT !.p = FreeDirectEach(st.p, cc, nc)]
        both(st) == IF st.fail THEN FreeIndirectTab(saved(st)) ELSE saved(st)
    IN IF cc = nc
          THEN IF nc <= DirectCount
                  THEN IF lastIdx >= DirectCount \/ p.direct[lastIdx] = 0
                          THEN [st0 EXCEPT !.bad = TRUE]
                          ELSE [st0 EXCEPT !.lbas[lastIdx] = p.direct[lastIdx]]
                  ELSE withTab
          ELSE IF nc <= DirectCount
                  THEN direct(WriteAllocEach(withLast, cc, nc))
                  ELSE IF cc <= DirectCount
                          THEN LET t == AllocBlock(p)
                               IN IF withLast.bad
                                     THEN withLast
                                     ELSE IF t = NoPos
                                             THEN [st0 EXCEPT !.fail = TRUE]
                                             ELSE IF p.itab # 0
                                                     THEN [st0 EXCEPT !.bad = TRUE]
                                                     ELSE both(WriteAllocEach(
                                                             [withLast EXCEPT !.p.itab = t,
                                                                              !.p.used = @ \cup {t}],
                                                             cc, nc))
                          ELSE saved(WriteAllocEach(withTab, cc, nc))

RECURSIVE WriteLoop(_, _, _, _)
\* WriteFile, the loop that writes the data sector by sector, st being the
\* partition, the position and is_first_write.
WriteLoop(st, lbas, data, written) ==
    IF written >= Len(data)
       THEN st
       ELSE LET idx == st.p.size \div SectorSize
                off == st.p.size % SectorSize
                chunk == Min({Len(data) - written, SectorSize - off})
                io == IF st.first THEN st.p.sect[lbas[idx]] ELSE ZeroSector
                out == [i \in 1..SectorSize |->
                           IF off < i /\ i <= off + chunk
                              THEN data[written + i - off]
                              ELSE SectorByte(io, i)]
            IN WriteLoop([p |-> [st.p EXCEPT !.sect[lbas[idx]] = out, !.size = @ + chunk],
                          pos |-> st.pos + chunk,
                          first |-> FALSE],
                         lbas, data, written + chunk)

\* The test of a write's size with the bound one byte too low.
ExceedsMaxAtLimit(curr, n) == curr + n >= MaxLen

\* WriteFile, the test of the size the file would have against the most an
\* index node holds.
ExceedsMax(curr, n) == curr + n > MaxLen

\* FilePart::WriteFile(file, data, size), file being the entry g of the file
\* table.  The position starts from curr_size - 1, which as a size_t wraps for
\* an empty file and wraps back with the first chunk.
WriteFile(p, g, data) ==
    IF ExceedsMax(p.size, Len(data))
       THEN [p |-> p, res |-> 0, bad |-> FALSE]
       ELSE LET a == WriteLbas(p, Len(data))
                w == WriteLoop([p |-> a.p, pos |-> p.size - 1, first |-> TRUE],
                               a.lbas, data, 0)
            IN IF a.bad
                  THEN [p |-> p, res |-> 0, bad |-> TRUE]
                  ELSE IF a.fail
                          THEN [p |-> a.p, res |-> 0, bad |-> FALSE]
                          ELSE [p |-> [w.p EXCEPT !.tab[g].pos = w.pos],
                                res |-> Len(data), bad |-> FALSE]

\* ReadFile, the assertions on the blocks of the sectors start .. end.
ReadLbasOk(p, start, end) ==
    LET directOk(a, b) == \A i \in a..b : p.direct[i] # 0
    IN IF start = end
          THEN IF end < DirectCount THEN directOk(start, start) ELSE p.itab # 0
          ELSE IF end < DirectCount
                  THEN directOk(start, end)
                  ELSE IF start < DirectCount
                          THEN directOk(start, DirectCount - 1) /\ p.itab # 0
                          ELSE p.itab # 0

\* ReadFile, the array lbas once collected.
ReadLbas(p, end) ==
    IF end < DirectCount
       THEN [i \in 0..(MaxSectors - 1) |-> IF i < DirectCount THEN p.direct[i] ELSE 0]
       ELSE LoadIndirect(p, [i \in 0..(MaxSectors - 1) |->
                                IF i < DirectCount THEN p.direct[i] ELSE 0])

RECURSIVE ReadLoop(_, _, _, _, _)
\* ReadFile, the loop that reads the data sector by sector.
ReadLoop(p, lbas, buf, pos, size) ==
    IF Len(buf) >= size
       THEN [buf |-> buf, pos |-> pos]
       ELSE LET idx == pos \div SectorSize
                off == pos % SectorSize
                chunk == Min({size - Len(buf), SectorSize - off})
                io == p.sect[lbas[idx]]
            IN ReadLoop(p, lbas,
                        buf \o [i \in 1..chunk |-> SectorByte(io, off + i)],
                        pos + chunk, size)

\* FilePart::ReadFile(file, buf, size), file being the entry g of the file
\* table.
ReadFile(p, g, n) ==
    LET pos == p.tab[g].pos
        size == Min({n, p.size - pos})
        start == pos \div SectorSize
        end == (pos + size) \div SectorSize
        r == ReadLoop(p, ReadLbas(p, end), <<>>, pos, size)
    IN IF p.size < pos
          THEN [p |-> p, res |-> 0, buf |-> <<>>, bad |-> TRUE]
          ELSE IF size = 0
                  THEN [p |-> p, res |-> 0, buf |-> <<>>, bad |-> FALSE]
                  ELSE IF ~(end < MaxSectors) \/ ~ReadLbasOk(p, start, end)
                          THEN [p |-> p, res |-> 0, buf |-> <<>>, bad |-> TRUE]
                          ELSE [p |-> [p EXCEPT !.tab[g].pos = r.pos],
                                res |-> size, buf |-> r.buf, bad |-> FALSE]

\* A stl::size_t from a signed value or from a sum: the value modulo the
\* range of the type, which the model makes 2^30 where the type has 2^32
\* (any range above the sizes and offsets of the model gives the same results).
ToSize(x) == x % (2 ^ 30)

\* FilePart::SeekFile(file, offset, origin): offset is a stl::int32_t, the
\* target is computed and compared as a stl::size_t.
SeekFile(p, g, offset, origin) ==
    LET pos == CASE origin = "Begin" -> Min({ToSize(offset), p.size})
                 [] origin = "Curr" -> Min({ToSize(p.tab[g].pos + offset), p.size})
                 [] origin = "End" -> Min({ToSize(p.size + offset), p.size})
    IN [p |-> [p EXCEPT !.tab[g].pos = pos], res |-> pos, bad |-> FALSE]

\* io::File::Write of a File object that stays alive, through a descriptor
\* the process holds
FileWrite(d, n) ==
    /\ ~panic
    /\ part.descs[d] # NoPos
    /\ Returned(WriteFile(part, part.descs[d], Data(part.size, n)))

\* io::File::Read of a File object that stays alive
FileRead(d, n) ==
    /\ ~panic
    /\ part.descs[d] # NoPos
    /\ Returned(ReadFile(part, part.descs[d], n))

\* io::File::Seek of a File object that stays alive
FileSeek(d, offset, origin) ==
    /\ ~panic
    /\ part.descs[d] # NoPos
    /\ Returned(SeekFile(part, part.descs[d], offset, origin))

PartInit ==
    /\ InitTwoStarted
    /\ InitSync
    /\ InitQueue
    /\ InitDisk
    /\ InitMem
    /\ InitMore

\* The sizes the process writes and reads with.
IoSizes == {0, 1, SectorSize, SectorSize + 1, MaxLen}

PartNext ==
    \/ \E flags \in OpenFlags : SysOpen(flags)
    \/ \E d \in 1..DescCount : SysClose(d)
    \/ SysDelete
    \/ \E d \in 1..DescCount, n \in IoSizes : FileWrite(d, n)
    \/ \E d \in 1..DescCount, n \in IoSizes : FileRead(d, n)
    \/ \E d \in 1..DescCount, offset \in {-1, 0, SectorSize}, origin \in {"Begin", "Curr", "End"} :
          FileSeek(d, offset, origin)

PartSpec == PartInit /\ [][PartNext]_vars

\* The entries of the file table that hold "/x" open with write access.
Writers(p) == {g \in 1..FileCount : p.tab[g].open /\ IsWrite(p.tab[g].flags)}

\* The block of the sector i of the file, by its index node.
NodeLba(p, i) ==
    IF i < DirectCount THEN p.direct[i] ELSE SectorByte(p.sect[p.itab], i - DirectCount + 1)

\* The bytes of the file as they stand on the disk.
Content(p) ==
    [k \in 1..p.size |->
        SectorByte(p.sect[NodeLba(p, (k - 1) \div SectorSize)], ((k - 1) % SectorSize) + 1)]

\* C16: at most one descriptor holds the file open with write access, however
\* it was opened; while there is one, write_deny is set and every further open
\* with write access returns the invalid descriptor; with none, write_deny is
\* clear.
C16_OneWriterAndWriteDeny ==
    ~panic =>
        /\ Cardinality(Writers(part)) <= 1
        /\ part.write_deny <=> Writers(part) # {}
        /\ \A flags \in OpenFlags :
              (IsWrite(flags) /\ Writers(part) # {}) => OpenPath(part, flags).res = NoPos

\* C17: while a descriptor got from open("/x", CreateNew | ReadWrite) is open,
\* delete("/x") returns false and leaves the file in the directory; closing
\* the descriptor completes, and if no other entry holds the file then, a
\* following delete returns true.
C17_BusyDeleteRefusedThenCloseAllows ==
    \A d \in 1..DescCount :
        (/\ ~panic
         /\ part.descs[d] # NoPos
         /\ part.tab[part.descs[d]].flags = {"CreateNew", "ReadWrite"}) =>
            LET del == DeleteFile(part)
                c == DescClose(part, d)
            IN /\ del.res = FALSE
               /\ del.p.exists
               /\ ~c.bad
               /\ ~Contain(c.p) => DeleteFile(c.p).res = TRUE

\* C18: on an open file that is empty, for every n from 1 to the most a file
\* holds, write(n bytes), seek(0, Begin), read(n) return n from the write and
\* from the read, and the buffer read equals the data written.
C18_WriteSeekReadRoundTrip ==
    \A d \in 1..DescCount, n \in 1..MaxLen :
        (~panic /\ part.descs[d] # NoPos /\ part.size = 0) =>
            LET g == part.descs[d]
                w == WriteFile(part, g, Data(0, n))
                sk == SeekFile(w.p, g, 0, "Begin")
                r == ReadFile(sk.p, g, n)
            IN /\ ~w.bad
               /\ w.res = n
               /\ ~r.bad
               /\ r.res = n
               /\ r.buf = Data(0, n)

\* C19: on an open file whose position is at most the size, read(n) returns
\* min(n, size - pos) bytes, which are the bytes of the file from pos on, and
\* advances the position by as many, for every n.
C19_ReadReturnsClampedBytes ==
    \A d \in 1..DescCount, n \in 0..MaxLen :
        (~panic /\ part.descs[d] # NoPos /\ part.tab[part.descs[d]].pos <= part.size) =>
            LET g == part.descs[d]
                pos == part.tab[g].pos
                k == Min({n, part.size - pos})
                r == ReadFile(part, g, n)
            IN /\ ~r.bad
               /\ r.res = k
               /\ r.buf = SubSeq(Content(part), pos + 1, pos + k)
               /\ r.p.tab[g].pos = pos + k

\* C20: a write of n bytes that succeeds on a file of size old leaves the
\* size and the position of the descriptor at old + n.
C20_WriteAdvancesSizeAndPos ==
    \A d \in 1..DescCount, n \in 1..MaxLen :
        (~panic /\ part.descs[d] # NoPos) =>
            LET g == part.descs[d]
                w == WriteFile(part, g, Data(part.size, n))
            IN (~w.bad /\ w.res = n) =>
                  /\ w.p.size = part.size + n
                  /\ w.p.tab[g].pos = part.size + n

\* C21: seek leaves the position at the target (offset for Begin, pos + offset
\* for Curr, size + offset for End, offset being signed) clamped into
\* 0 .. size: 0 for a target below 0, size for a target above size.
C21_SeekClampsTarget ==
    \A d \in 1..DescCount, offset \in (0 - MaxLen - 1)..(MaxLen + 1),
       origin \in {"Begin", "Curr", "End"} :
        (~panic /\ part.descs[d] # NoPos /\ part.tab[part.descs[d]].pos <= part.size) =>
            LET g == part.descs[d]
                target == CASE origin = "Begin" -> offset
                            [] origin = "Curr" -> part.tab[g].pos + offset
                            [] origin = "End" -> part.size + offset
                clamped == IF target < 0 THEN 0
                           ELSE IF target > part.size THEN part.size ELSE target
                r == SeekFile(part, g, offset, origin)
            IN /\ ~r.bad
               /\ r.res = clamped
               /\ r.p.tab[g].pos = clamped

\* C22: a write that brings the file to exactly the most an index node holds
\* succeeds and writes every byte; a write that would make the file one byte
\* longer returns 0 and leaves the index node, the block bitmap in memory and
\* on the disk, the sectors and the file's position as they were.
C22_WriteAtLimitAndBeyond ==
    \A d \in 1..DescCount, n \in 1..(MaxLen + 1) :
        (~panic /\ part.descs[d] # NoPos) =>
            LET g == part.descs[d]
                r == WriteFile(part, g, Data(part.size, n))
            IN /\ part.size + n = MaxLen => (~r.bad /\ r.res = n /\ r.p.size = MaxLen)
               /\ part.size + n = MaxLen + 1 => (~r.bad /\ r.res = 0 /\ r.p = part)

\* A file that a write has brought to the most an index node holds is open.
C22_Witness ==
    /\ ~panic
    /\ part.size = MaxLen
    /\ \E d \in 1..DescCount : part.descs[d] # NoPos

\* The blocks of the file: those of its index node and its single indirect
\* block table.
FileBlocks(p) ==
    ({LoadNodeLbas(p)[i] : i \in 0..(MaxSectors - 1)} \cup {p.itab}) \ {0}

\* Another file of the partition grows by a block: AllocBlock and
\* SyncBlockBitmap, as WriteFile does for each new block.
OtherTake ==
    /\ ~panic
    /\ AllocBlock(part) # NoPos
    /\ part' = SyncBlockBitmap([part EXCEPT !.used = @ \cup {AllocBlock(part)}], AllocBlock(part))
    /\ UNCHANGED <<panic, nonPartVars>>

\* Another file of the partition gives a block back: FreeBlock and
\* SyncBlockBitmap, as DeleteNode does for each block.
OtherGive(b) ==
    /\ ~panic
    /\ b \in part.used \ FileBlocks(part)
    /\ part' = SyncBlockBitmap(FreeBlock(part, b), b)
    /\ UNCHANGED <<panic, nonPartVars>>

FullNext ==
    \/ SysOpen({"CreateNew"})
    \/ \E d \in 1..DescCount, n \in IoSizes : FileWrite(d, n)
    \/ OtherTake
    \/ \E b \in 1..DiskBlocks : OtherGive(b)

\* The file "/x" on a partition whose blocks other files take and give back.
FullSpec == PartInit /\ [][FullNext]_vars

\* The blocks a write of n bytes has to allocate: the new sectors, and the
\* single indirect block table when the file grows past the direct blocks.
BlocksNeeded(p, n) ==
    LET cc == RoundUpDivide(p.size, SectorSize)
        nc == RoundUpDivide(p.size + n, SectorSize)
    IN (nc - cc) + (IF cc <= DirectCount /\ nc > DirectCount THEN 1 ELSE 0)

\* C23: when a write runs out of blocks, at the single indirect block table or
\* at any data block, it returns 0 and the block bitmap, in memory and on the
\* disk, and the direct and indirect block pointers of the index node are as
\* before the call.
C23_FailedAllocationRollsBack ==
    \A d \in 1..DescCount, n \in 1..MaxLen :
        (/\ ~panic
         /\ part.descs[d] # NoPos
         /\ part.size + n <= MaxLen
         /\ BlocksNeeded(part, n) > DiskBlocks - Cardinality(part.used)) =>
            LET r == WriteFile(part, part.descs[d], Data(part.size, n))
            IN /\ ~r.bad
               /\ r.res = 0
               /\ r.p.used = part.used
               /\ r.p.disk_used = part.disk_used
               /\ r.p.direct = part.direct
               /\ r.p.itab = part.itab
               /\ r.p.size = part.size

\* A write that creates the single indirect block table and then finds no
\* block for the data is possible.
C23_Witness ==
    \E d \in 1..DescCount, n \in 1..MaxLen :
        /\ ~panic
        /\ part.descs[d] # NoPos
        /\ part.size + n <= MaxLen
        /\ RoundUpDivide(part.size, SectorSize) <= DirectCount
        /\ RoundUpDivide(part.size + n, SectorSize) > DirectCount
        /\ DiskBlocks - Cardinality(part.used) >= 1
        /\ BlocksNeeded(part, n) > DiskBlocks - Cardinality(part.used)
        /\ WriteFile(part, part.descs[d], Data(part.size, n)).res = 0

\* ------------------------------------------------------------------ Path

\* Path::IsRootDir(path)
IsRootDir(path) ==
    path \in {<<Separator>>, <<Separator>> \o CurrDirName, <<Separator>> \o ParentDirName}

\* Path::IsDir(path)
IsDir(path) ==
    \/ path = <<>>
    \/ IsRootDir(path)
    \/ path[Len(path)] = Separator

\* Path::IsAbsolute(path)
IsAbsolute(path) == path # <<>> /\ path[1] = Separator

RECURSIVE SkipSeparators(_)
\* Path::Parse, the loop over the leading separators.
SkipSeparators(path) ==
    IF path # <<>> /\ Head(path) = Separator THEN SkipSeparators(Tail(path)) ELSE path

RECURSIVE TakeName(_)
\* Path::Parse, the loop that copies the name up to a separator or the end.
TakeName(path) ==
    IF path = <<>> \/ Head(path) = Separator
       THEN <<>>
       ELSE <<Head(path)>> \o TakeName(Tail(path))

\* Path::Parse(path, name): the first name of the path and the rest of it.
Parse(path) ==
    LET from == SkipSeparators(path)
        name == TakeName(from)
    IN [name |-> name, rest |-> SubSeq(from, Len(name) + 1, Len(from))]

RECURSIVE Names(_)
\* Path::Visit: the names handed to the visitor, in order.
Names(path) ==
    IF Parse(path).name = <<>>
       THEN <<>>
       ELSE <<Parse(path).name>> \o Names(Parse(path).rest)

\* Path::GetDepth(path)
GetDepth(path) == Len(Names(path))

RECURSIVE AfterLastSeparator(_)
\* path.substr(path.rfind(separator) + 1), the whole path without a separator.
AfterLastSeparator(path) ==
    IF \A i \in 1..Len(path) : path[i] # Separator
       THEN path
       ELSE AfterLastSeparator(Tail(path))

\* Path::GetFileName(path)
GetFileName(path) == IF IsDir(path) THEN <<>> ELSE AfterLastSeparator(path)

\* Path::Join, the visitor: a separator unless the path so far ends in one,
\* then the name.
JoinName(full, name) ==
    IF full # <<>> /\ full[Len(full)] # Separator
       THEN full \o <<Separator>> \o name
       ELSE full \o name

RECURSIVE JoinNames(_, _)
JoinNames(full, names) ==
    IF names = <<>> THEN full ELSE JoinNames(JoinName(full, Head(names)), Tail(names))

\* Path::Join(child) on the path full.
Join(full, child) ==
    LET start == IF full = <<>> /\ IsAbsolute(child) THEN <<Separator>> ELSE full
        joined == JoinNames(start, Names(child))
    IN IF IsDir(child) THEN joined \o <<Separator>> ELSE joined

\* Path::Path(path): the characters a Path built from a string holds.
Path(path) == Join(<<>>, path)

\* ----------------------------------------------------------- Directories

\* FilePart::AllocNode: the first free index node, or npos.
AllocNode(v) ==
    IF \E i \in 0..(NodeCount - 1) : i \notin v.ibits
       THEN Min({i \in 0..(NodeCount - 1) : i \notin v.ibits})
       ELSE NoPos

\* FilePart::FreeNode
FreeNode(v, idx) == [v EXCEPT !.ibits = @ \ {idx}]

\* FilePart::SyncNodeBitmap and SyncBitmap: the sector of the bitmap that
\* holds the index node's bit goes to the disk.
SyncNodeBitmap(v, idx) ==
    LET same(i) == i \div BitsPerSector = idx \div BitsPerSector
    IN [v EXCEPT !.ibits_disk = {i \in @ : ~same(i)} \cup {i \in v.ibits : same(i)}]

\* FilePart::SyncNode: the index node without open_times and write_deny goes
\* to the table of index nodes.
SyncNode(v, inode) ==
    [v EXCEPT !.nodes[inode.idx] =
                 [idx |-> inode.idx, size |-> inode.size, direct |-> inode.direct,
                  itab |-> inode.itab]]

\* FilePart::ZeroFillNode
ZeroFillNode(v, idx) == [v EXCEPT !.nodes[idx] = ZeroNode]

\* open_inodes_.Find: the place on the list of the first index node with the
\* index, 0 when there is none.
FindOpen(v, idx) ==
    IF \E k \in 1..Len(v.open) : v.open[k].idx = idx
       THEN Min({k \in 1..Len(v.open) : v.open[k].idx = idx})
       ELSE 0

\* The index node in memory that a file or a directory points to.
NodeOf(v, idx) == v.open[FindOpen(v, idx)]

\* FilePart::OpenNode on the partition with the directories.
OpenVolNode(v, idx) ==
    IF idx = NoPos \/ idx >= NodeCount
       THEN [v |-> v, k |-> 0, bad |-> TRUE]
       ELSE IF FindOpen(v, idx) # 0
               THEN [v |-> [v EXCEPT !.open[FindOpen(v, idx)].open_times = @ + 1],
                     k |-> FindOpen(v, idx), bad |-> FALSE]
               ELSE [v |-> [v EXCEPT !.open = Append(@, MemNode(v.nodes[idx], 1))],
                     k |-> Len(v.open) + 1, bad |-> FALSE]

\* A Close that detaches the index node whatever its open_times.
CloseVolNodeAtOnce(v, k) ==
    [v EXCEPT !.open = SubSeq(@, 1, k - 1) \o SubSeq(@, k + 1, Len(@))]

\* IdxNode::Close of the index node at the place k of the list.
CloseVolNode(v, k) ==
    IF v.open[k].open_times = 1
       THEN [v EXCEPT !.open = SubSeq(@, 1, k - 1) \o SubSeq(@, k + 1, Len(@))]
       ELSE [v EXCEPT !.open[k].open_times = @ - 1]

\* Directory::Close: the root directory stays, any other directory closes its
\* index node.
DirClose(v, dir) ==
    IF dir.root THEN v ELSE CloseVolNode(v, FindOpen(v, dir.idx))

\* fs::GetRootDir()
RootDir == [root |-> TRUE, idx |-> RootNode]

\* LoadNodeLbas on the partition with the directories.
DirLbas(v, inode) ==
    [i \in 0..(MaxSectors - 1) |->
        IF i < DirectCount
           THEN inode.direct[i]
           ELSE IF inode.itab = 0 THEN 0 ELSE v.sect[inode.itab][i - DirectCount + 1]]

\* FilePart::SearchDirEntry: the first entry with the name, whatever its
\* type, in the blocks of the directory in order.
SearchDirEntry(v, inode, name) ==
    LET lbas == DirLbas(v, inode)
        hits == {h \in (0..(MaxSectors - 1)) \X (0..(EntriesPerSector - 1)) :
                    /\ lbas[h[1]] # 0
                    /\ EntryAt(v.sect[lbas[h[1]]], h[2]).name = NameWord(name)}
        first == CHOOSE h \in hits :
                    \A o \in hits : h[1] < o[1] \/ (h[1] = o[1] /\ h[2] <= o[2])
    IN IF hits = {}
          THEN [found |-> FALSE, entry |-> DirEntry(Unknown, <<>>, NoPos)]
          ELSE [found |-> TRUE, entry |-> EntryAt(v.sect[lbas[first[1]]], first[2])]

RECURSIVE SearchNames(_, _)
\* FilePart::SearchPath, the visitor over the names of the path.  The index
\* node the next directory is opened by is record->inode_idx, which only the
\* branch of a regular file sets.
SearchNames(st, names) ==
    LET Visit(inode, r, joined, opened) ==
            IF ~r.found
               THEN [joined EXCEPT !.type = Unknown]
               ELSE IF r.entry.type = Directory
                       THEN IF opened.bad
                               THEN [joined EXCEPT !.bad = TRUE]
                               ELSE SearchNames(
                                       [joined EXCEPT !.v = opened.v,
                                                      !.parent_inode_idx = inode.idx,
                                                      !.type = Directory,
                                                      !.parent = [root |-> FALSE,
                                                                  idx |-> st.inode_idx]],
                                       Tail(names))
                       ELSE IF r.entry.type = Regular
                               THEN [joined EXCEPT !.type = Regular,
                                                   !.inode_idx = r.entry.inode_idx]
                               ELSE [joined EXCEPT !.bad = TRUE]
        In(inode) ==
            Visit(inode, SearchDirEntry(st.v, inode, Head(names)),
                  [st EXCEPT !.searched = Join(@, Head(names))],
                  OpenVolNode(DirClose(st.v, st.parent), st.inode_idx))
    IN IF names = <<>> \/ st.bad
          THEN st
          ELSE In(NodeOf(st.v, st.parent.idx))

\* FilePart::SearchPath(path, record), path being the characters of a Path.
SearchPath(v, path) ==
    LET Record(st, reopened) ==
            IF st.bad
               THEN [v |-> v, found |-> FALSE, searched |-> st.searched,
                     parent |-> st.parent, type |-> st.type,
                     inode_idx |-> st.inode_idx, bad |-> TRUE]
               ELSE IF st.type = Directory
                       THEN [v |-> reopened.v, found |-> TRUE, searched |-> st.searched,
                             parent |-> [root |-> FALSE, idx |-> st.parent_inode_idx],
                             type |-> st.type, inode_idx |-> st.inode_idx,
                             bad |-> reopened.bad]
                       ELSE [v |-> st.v, found |-> st.type # Unknown,
                             searched |-> st.searched, parent |-> st.parent,
                             type |-> st.type, inode_idx |-> st.inode_idx,
                             bad |-> FALSE]
        Visited(st) ==
            Record(st, OpenVolNode(DirClose(st.v, st.parent), st.parent_inode_idx))
    IN IF ~IsAbsolute(path)
          THEN [v |-> v, found |-> FALSE, searched |-> <<>>, parent |-> RootDir,
                type |-> Unknown, inode_idx |-> NoPos, bad |-> TRUE]
          ELSE IF IsRootDir(path)
                  THEN [v |-> v, found |-> TRUE, searched |-> <<>>, parent |-> RootDir,
                        type |-> Directory, inode_idx |-> RootNode, bad |-> FALSE]
                  ELSE Visited(SearchNames([v |-> v, searched |-> Path(<<>>),
                                            parent |-> RootDir, type |-> Unknown,
                                            inode_idx |-> NoPos,
                                            parent_inode_idx |-> RootNode, bad |-> FALSE],
                                           Names(path)))

\* The sector that holds the single indirect block table lbas[DirectCount ..].
TableWords(lbas) ==
    [i \in 1..SectorWords |-> IF i <= IndirectCount THEN lbas[DirectCount + i - 1] ELSE 0]

\* The entries of a sector that are in use.
Live(sec) == {j \in 0..(EntriesPerSector - 1) : EntryAt(sec, j).type # Unknown}

\* FilePart::SyncDirEntry(dir, entry), k being the place of the directory's
\* index node on the list.  The first block of the directory with a free
\* entry takes the new one; where the directory has no block yet, a new block
\* does.  The table of a directory that gets its first indirect block is
\* written through the outer indirect_tab_lba, which is still 0: the sector 0
\* of the disk takes it, and the new table keeps what its block held.
SyncDirEntry(v, k, entry) ==
    LET inode == v.open[k]
        lbas == DirLbas(v, inode)
        room == {i \in 0..(MaxSectors - 1) :
                    lbas[i] = 0 \/ Live(v.sect[lbas[i]]) # 0..(EntriesPerSector - 1)}
        i == Min(room)
        b == AllocBlock(v)
        v1 == SyncBlockBitmap([v EXCEPT !.used = @ \cup {b}], b)
        t == AllocBlock(v1)
        v2 == SyncBlockBitmap([v1 EXCEPT !.used = @ \cup {t}, !.open[k].itab = t], t)
        newLbas == [lbas EXCEPT ![i] = b]
        stored(w) == [w EXCEPT !.sect[b] = PutEntry(ZeroWords, 0, entry),
                               !.open[k].size = @ + EntrySize]
        j == Min((0..(EntriesPerSector - 1)) \ Live(v.sect[lbas[i]]))
    IN IF inode.size < MinEntryCount * EntrySize \/ inode.size % EntrySize # 0
          THEN [v |-> v, ok |-> FALSE, bad |-> TRUE]
          ELSE IF room = {}
                  THEN [v |-> v, ok |-> FALSE, bad |-> FALSE]
                  ELSE IF lbas[i] # 0
                          THEN [v |-> [v EXCEPT !.sect[lbas[i]] = PutEntry(@, j, entry),
                                                !.open[k].size = @ + EntrySize],
                                ok |-> TRUE, bad |-> FALSE]
                          ELSE IF b = NoPos
                                  THEN [v |-> v, ok |-> FALSE, bad |-> FALSE]
                                  ELSE IF i < DirectCount
                                          THEN [v |-> stored([v1 EXCEPT !.open[k].direct[i] = b]),
                                                ok |-> TRUE, bad |-> FALSE]
                                          ELSE IF inode.itab # 0
                                                  THEN [v |-> stored([v1 EXCEPT !.sect[inode.itab] =
                                                                                   TableWords(newLbas)]),
                                                        ok |-> TRUE, bad |-> FALSE]
                                                  ELSE IF t = NoPos
                                                          THEN [v |-> SyncBlockBitmap(FreeBlock(v1, b), b),
                                                                ok |-> FALSE, bad |-> FALSE]
                                                          ELSE [v |-> stored([v2 EXCEPT !.lba0 = TRUE]),
                                                                ok |-> TRUE, bad |-> FALSE]

RECURSIVE DeleteEntryFrom(_, _, _, _)
\* FilePart::DeleteDirEntry, the loop over the blocks of the directory from
\* the block i on.
DeleteEntryFrom(v, k, inode_idx, i) ==
    LET inode == v.open[k]
        lbas == DirLbas(v, inode)
        sec == v.sect[lbas[i]]
        found == {j \in Live(sec) :
                     /\ EntryAt(sec, j).name # NameWord(CurrDirName)
                     /\ EntryAt(sec, j).name # NameWord(ParentDirName)
                     /\ EntryAt(sec, j).inode_idx = inode_idx}
        j == CHOOSE e \in found : TRUE
        indirect == Cardinality({n \in DirectCount..(MaxSectors - 1) : lbas[n] # 0})
        freed == SyncBlockBitmap(FreeBlock(v, lbas[i]), lbas[i])
        unlinked == IF i < DirectCount
                       THEN [freed EXCEPT !.open[k].direct[i] = 0]
                       ELSE IF indirect > 1
                               THEN [freed EXCEPT !.sect[inode.itab] =
                                                     TableWords([lbas EXCEPT ![i] = 0])]
                               ELSE [SyncBlockBitmap(FreeBlock(freed, inode.itab), inode.itab)
                                        EXCEPT !.open[k].itab = 0]
        cleared == [v EXCEPT !.sect[lbas[i]] = PutEntry(@, j, DirEntry(Unknown, <<>>, 0))]
        shrunk(w) == [w EXCEPT !.open[k].size = @ - EntrySize]
        after == shrunk(IF Cardinality(Live(sec)) = MinEntryCount + 1 THEN unlinked ELSE cleared)
    IN IF i = MaxSectors
          THEN [v |-> v, ok |-> FALSE, bad |-> FALSE]
          ELSE IF lbas[i] = 0
                  THEN DeleteEntryFrom(v, k, inode_idx, i + 1)
                  ELSE IF Cardinality(found) > 1 \/ Cardinality(Live(sec)) < MinEntryCount
                          THEN [v |-> v, ok |-> FALSE, bad |-> TRUE]
                          ELSE IF found = {}
                                  THEN DeleteEntryFrom(v, k, inode_idx, i + 1)
                                  ELSE IF i >= DirectCount /\ indirect = 0
                                          THEN [v |-> v, ok |-> FALSE, bad |-> TRUE]
                                          ELSE [v |-> SyncNode(after, after.open[k]),
                                                ok |-> TRUE, bad |-> FALSE]

\* FilePart::DeleteDirEntry(dir, inode_idx)
DeleteDirEntry(v, k, inode_idx) ==
    IF v.open[k].size < MinEntryCount * EntrySize \/ v.open[k].size % EntrySize # 0
       THEN [v |-> v, ok |-> FALSE, bad |-> TRUE]
       ELSE DeleteEntryFrom(v, k, inode_idx, 0)

RECURSIVE FreeVolLbas(_, _, _)
\* DeleteNode, the loop over the blocks of the index node.
FreeVolLbas(v, lbas, i) ==
    IF i = MaxSectors
       THEN v
       ELSE FreeVolLbas(IF lbas[i] # 0 THEN SyncBlockBitmap(FreeBlock(v, lbas[i]), lbas[i]) ELSE v,
                        lbas, i + 1)

\* FilePart::DeleteNode(idx) on the partition with the directories.
DeleteVolNode(v, idx) ==
    LET o == OpenVolNode(v, idx)
        inode == o.v.open[o.k]
        v1 == FreeVolLbas(o.v, DirLbas(o.v, inode), 0)
        v2 == IF inode.itab # 0 THEN SyncBlockBitmap(FreeBlock(v1, inode.itab), inode.itab) ELSE v1
        v3 == ZeroFillNode(SyncNodeBitmap(FreeNode(v2, idx), idx), idx)
    IN IF o.bad
          THEN [v |-> v, bad |-> TRUE]
          ELSE [v |-> CloseVolNode(v3, o.k), bad |-> FALSE]

\* FileTab::Contain(inode_idx)
ContainNode(v, inode_idx) ==
    \E g \in 1..FileCount : v.tab[g].open /\ v.tab[g].inode = inode_idx

\* FilePart::OpenFile(inode_idx, flags) on the partition with the directories.
OpenVolFile(v, inode_idx, flags) ==
    LET g == GetFreeDesc(v)
        o == OpenVolNode(v, inode_idx)
        inode == o.v.open[o.k]
        slot == [open |-> TRUE, inode |-> inode.idx, flags |-> flags, pos |-> 0]
    IN IF g = NoPos
          THEN [p |-> v, res |-> NoPos, bad |-> FALSE]
          ELSE IF o.bad
                  THEN [p |-> v, res |-> NoPos, bad |-> TRUE]
                  ELSE IF IsWrite(flags) /\ inode.write_deny
                          THEN [p |-> CloseVolNode(o.v, o.k), res |-> NoPos, bad |-> FALSE]
                          ELSE SyncGlobal([o.v EXCEPT !.open[o.k].write_deny =
                                                         IF IsWrite(flags) THEN TRUE ELSE @,
                                                      !.tab[g] = slot],
                                          g)

\* FilePart::CreateFile(dir, name, flags), k being the place of the
\* directory's index node on the list.
CreateVolFile(v, k, name, flags) ==
    LET inode_idx == AllocNode(v)
        g == GetFreeDesc(v)
        v1 == [v EXCEPT !.ibits = @ \cup {inode_idx},
                        !.tab[g] = [open |-> TRUE, inode |-> inode_idx, flags |-> flags,
                                    pos |-> 0]]
        e == SyncDirEntry(v1, k, DirEntry(Regular, name, inode_idx))
        inode == MemNode([ZeroNode EXCEPT !.idx = inode_idx], 1)
        v2 == SyncNodeBitmap(SyncNode(SyncNode(e.v, e.v.open[k]), inode), inode_idx)
    IN IF inode_idx = NoPos \/ g = NoPos
          THEN [p |-> v, res |-> NoPos, bad |-> FALSE]
          ELSE IF name = <<>> \/ e.bad
                  THEN [p |-> v, res |-> NoPos, bad |-> TRUE]
                  ELSE IF ~e.ok
                          THEN [p |-> FreeNode([e.v EXCEPT !.tab[g] = ClearSlot], inode_idx),
                                res |-> NoPos, bad |-> FALSE]
                          ELSE SyncGlobal([v2 EXCEPT !.open = Append(@, inode)], g)

\* FilePart::OpenFile(path, flags), path being the characters of a Path.
OpenVolPath(v, path, flags) ==
    LET Done(s, r) == [p |-> DirClose(r.p, s.parent), res |-> r.res, bad |-> r.bad]
        Searched(s) ==
            IF s.bad
               THEN [p |-> v, res |-> NoPos, bad |-> TRUE]
               ELSE IF \/ s.type = Directory
                       \/ GetDepth(path) # GetDepth(s.searched)
                       \/ (~s.found /\ "CreateNew" \notin flags)
                       \/ (s.found /\ "CreateNew" \in flags)
                       THEN [p |-> DirClose(s.v, s.parent), res |-> NoPos, bad |-> FALSE]
                       ELSE Done(s, IF s.found
                                       THEN OpenVolFile(s.v, s.inode_idx, flags)
                                       ELSE CreateVolFile(s.v, FindOpen(s.v, s.parent.idx),
                                                          GetFileName(path), flags))
    IN IF ~IsAbsolute(path)
          THEN [p |-> v, res |-> NoPos, bad |-> TRUE]
          ELSE IF IsDir(path)
                  THEN [p |-> v, res |-> NoPos, bad |-> FALSE]
                  ELSE Searched(SearchPath(v, path))

\* fs::File::Close of the entry g of the file table.
CloseVolFile(v, g) ==
    LET k == FindOpen(v, v.tab[g].inode)
    IN IF ~v.tab[g].open
          THEN [p |-> [v EXCEPT !.tab[g] = ClearSlot], bad |-> FALSE]
          ELSE IF IsWrite(v.tab[g].flags) /\ ~v.open[k].write_deny
                  THEN [p |-> v, bad |-> TRUE]
                  ELSE [p |-> [CloseVolNode([v EXCEPT !.open[k].write_deny =
                                                         IF IsWrite(v.tab[g].flags) THEN FALSE ELSE @],
                                            k)
                                  EXCEPT !.tab[g] = ClearSlot],
                        bad |-> FALSE]

\* FileDesc::Close of the local descriptor d.
CloseVolDesc(v, d) ==
    LET r == CloseVolFile(v, v.descs[d])
    IN [p |-> [r.p EXCEPT !.descs[d] = NoPos], res |-> 0, bad |-> r.bad]

\* FilePart::DeleteFile(path).  The result of DeleteDirEntry is not looked at.
DeleteVolFile(v, path) ==
    LET Deleted(s, n) ==
            IF n.bad
               THEN [p |-> v, res |-> FALSE, bad |-> TRUE]
               ELSE [p |-> DirClose(n.v, s.parent), res |-> TRUE, bad |-> FALSE]
        Unlinked(s, e) ==
            IF e.bad
               THEN [p |-> v, res |-> FALSE, bad |-> TRUE]
               ELSE Deleted(s, DeleteVolNode(e.v, s.inode_idx))
        Searched(s) ==
            IF s.bad
               THEN [p |-> v, res |-> FALSE, bad |-> TRUE]
               ELSE IF ~s.found \/ s.type = Directory \/ ContainNode(s.v, s.inode_idx)
                       THEN [p |-> DirClose(s.v, s.parent), res |-> FALSE, bad |-> FALSE]
                       ELSE Unlinked(s, DeleteDirEntry(s.v, FindOpen(s.v, s.parent.idx),
                                                        s.inode_idx))
    IN IF ~IsAbsolute(path)
          THEN [p |-> v, res |-> FALSE, bad |-> TRUE]
          ELSE IF IsDir(path)
                  THEN [p |-> v, res |-> FALSE, bad |-> FALSE]
                  ELSE Searched(SearchPath(v, path))

\* What CreateDir's buffer holds after the entries "." and "..": SyncNode has
\* read a sector of the table of index nodes into it.  No operation reads
\* these words of a directory's first sector back.
Leftover == NoPos

\* FilePart::CreateDir(path).  The index node and the block are taken before
\* the path is looked at, and given back in memory when the call fails.
CreateDir(v, path) ==
    LET Err(s, w, inode_idx, sector_lba) ==
            [p |-> DirClose(IF sector_lba = NoPos THEN w ELSE FreeBlock(w, sector_lba),
                            s.parent),
             res |-> FALSE, bad |-> FALSE]
        Entries(inode_idx, parent_idx) ==
            [i \in 1..SectorWords |->
                IF i <= MinEntryCount * EntryWords
                   THEN PutEntry(PutEntry(ZeroWords, 0,
                                          DirEntry(Directory, CurrDirName, inode_idx)),
                                 1, DirEntry(Directory, ParentDirName, parent_idx))[i]
                   ELSE Leftover]
        Written(s, k, v3, inode_idx, sector_lba) ==
            [p |-> DirClose(
                      SyncNodeBitmap(
                         SyncNode(SyncBlockBitmap(
                                     [v3 EXCEPT !.sect[sector_lba] =
                                                   Entries(inode_idx, v3.open[k].idx)],
                                     sector_lba),
                                  [ZeroNode EXCEPT !.idx = inode_idx,
                                                   !.direct[0] = sector_lba,
                                                   !.size = MinEntryCount * EntrySize]),
                         inode_idx),
                      s.parent),
             res |-> TRUE, bad |-> FALSE]
        Entered(s, k, e, inode_idx, sector_lba) ==
            IF e.bad
               THEN [p |-> v, res |-> FALSE, bad |-> TRUE]
               ELSE IF ~e.ok
                       THEN Err(s, FreeNode(e.v, inode_idx), inode_idx, sector_lba)
                       ELSE Written(s, k, SyncNode(e.v, e.v.open[k]), inode_idx, sector_lba)
        Taken(s, k, name, v2, inode_idx, sector_lba) ==
            IF \/ s.found
               \/ GetDepth(path) # GetDepth(s.searched)
               \/ inode_idx = NoPos
               \/ sector_lba = NoPos
               THEN Err(s, IF inode_idx = NoPos THEN v2 ELSE FreeNode(v2, inode_idx),
                        inode_idx, sector_lba)
               ELSE IF name = <<>>
                       THEN [p |-> v, res |-> FALSE, bad |-> TRUE]
                       ELSE Entered(s, k,
                                    SyncDirEntry(v2, k, DirEntry(Directory, name, inode_idx)),
                                    inode_idx, sector_lba)
        Placed(s, v1, inode_idx, sector_lba) ==
            Taken(s, FindOpen(s.v, s.parent.idx), GetFileName(s.searched),
                  IF sector_lba = NoPos THEN v1 ELSE [v1 EXCEPT !.used = @ \cup {sector_lba}],
                  inode_idx, sector_lba)
        Indexed(s, v1, inode_idx) == Placed(s, v1, inode_idx, AllocBlock(v1))
        Searched(s, inode_idx) ==
            Indexed(s, IF inode_idx = NoPos THEN s.v ELSE [s.v EXCEPT !.ibits = @ \cup {inode_idx}],
                    inode_idx)
        Found(s) ==
            IF s.bad
               THEN [p |-> v, res |-> FALSE, bad |-> TRUE]
               ELSE Searched(s, AllocNode(s.v))
    IN IF ~IsAbsolute(path)
          THEN [p |-> v, res |-> FALSE, bad |-> TRUE]
          ELSE Found(SearchPath(v, path))

\* FilePart::OpenDir(path): the directory it returns, none for nullptr.
OpenDir(v, path) ==
    LET Opened(s, o) ==
            IF s.bad
               THEN [p |-> v, dir |-> "none", bad |-> TRUE]
               ELSE IF ~s.found \/ s.type = Regular
                       THEN [p |-> s.v, dir |-> "none", bad |-> FALSE]
                       ELSE IF o.bad
                               THEN [p |-> v, dir |-> "none", bad |-> TRUE]
                               ELSE [p |-> o.v,
                                     dir |-> [root |-> FALSE, idx |-> s.inode_idx],
                                     bad |-> FALSE]
        Searched(s) == Opened(s, OpenVolNode(DirClose(s.v, s.parent), s.inode_idx))
    IN IF ~IsAbsolute(path)
          THEN [p |-> v, dir |-> "none", bad |-> TRUE]
          ELSE IF IsRootDir(path)
                  THEN [p |-> v, dir |-> RootDir, bad |-> FALSE]
                  ELSE Searched(SearchPath(v, path))

RECURSIVE LiveFrom(_, _, _)
\* The entries in use of the blocks i .. of a directory, in the order ReadDir
\* meets them.
LiveFrom(v, lbas, i) ==
    LET sec == v.sect[lbas[i]]
        RECURSIVE Of(_)
        Of(j) == IF j = EntriesPerSector
                    THEN <<>>
                    ELSE (IF j \in Live(sec) THEN <<EntryAt(sec, j)>> ELSE <<>>) \o Of(j + 1)
    IN IF i = MaxSectors
          THEN <<>>
          ELSE (IF lbas[i] = 0 THEN <<>> ELSE Of(0)) \o LiveFrom(v, lbas, i + 1)

\* FilePart::ReadDir(dir) with the directory's position at pos: the entry it
\* returns, none for nullptr, and the position after the call.
ReadDir(v, dir, pos) ==
    LET inode == NodeOf(v, dir.idx)
        live == LiveFrom(v, DirLbas(v, inode), 0)
    IN IF pos >= inode.size \/ pos \div EntrySize >= Len(live)
          THEN [entry |-> "none", pos |-> pos]
          ELSE [entry |-> live[(pos \div EntrySize) + 1], pos |-> pos + EntrySize]

\* FilePart::DeleteDir(parent, child), both open directories.
DeleteDir(v, parent, child) ==
    LET inode_idx == NodeOf(v, child.idx).idx
        e == DeleteDirEntry(v, FindOpen(v, parent.idx), inode_idx)
        n == DeleteVolNode(e.v, inode_idx)
    IN IF e.bad
          THEN [p |-> v, res |-> FALSE, bad |-> TRUE]
          ELSE IF ~e.ok
                  THEN [p |-> e.v, res |-> FALSE, bad |-> FALSE]
                  ELSE [p |-> n.v, res |-> TRUE, bad |-> n.bad]

nonVolVars ==
    <<schedVars, syncVars, pc, depth, queueVars, diskVars, memVars, run, intr, guards, fk, part,
      heap, ide>>

\* The call returns, or the kernel halts on a failed assertion.
VolReturned(r) ==
    /\ panic' = r.bad
    /\ vol' = IF r.bad THEN vol ELSE r.p
    /\ UNCHANGED nonVolVars

\* The paths the process names: the root directory, two names in it and a
\* name below one of them.
DirPaths ==
    {<<"/">>, <<"/", "a">>, <<"/", "b">>, <<"/", "a", "/", "b">>}

\* The flags the process opens files with.
DirFlags == {{}, {"CreateNew"}}

\* sc::File::Open
VolOpen(path, flags) ==
    /\ ~panic
    /\ VolReturned(OpenVolPath(vol, Path(path), flags))

\* sc::File::Close, of a descriptor the process holds
VolClose(d) ==
    /\ ~panic
    /\ vol.descs[d] # NoPos
    /\ VolReturned(CloseVolDesc(vol, d))

\* sc::File::Delete
VolDelete(path) ==
    /\ ~panic
    /\ VolReturned(DeleteVolFile(vol, Path(path)))

\* sc::Directory::Create
VolCreateDir(path) ==
    /\ ~panic
    /\ VolReturned(CreateDir(vol, Path(path)))

\* FilePart::OpenDir(path): the process keeps the directory it gets.
VolOpenDir(path) ==
    /\ ~panic
    /\ LET r == OpenDir(vol, Path(path))
       IN VolReturned([p |-> IF r.dir \in {"none", RootDir}
                                THEN r.p
                                ELSE [r.p EXCEPT !.dirs = Append(@, r.dir)],
                       bad |-> r.bad])

\* The directories the process can hand to DeleteDir.
HeldDirs == {RootDir} \cup {vol.dirs[i] : i \in 1..Len(vol.dirs)}

\* FilePart::DeleteDir(parent, child)
VolDeleteDir(parent, child) ==
    /\ ~panic
    /\ VolReturned(DeleteDir(vol, parent, child))

DirNext ==
    \/ \E path \in DirPaths, flags \in DirFlags : VolOpen(path, flags)
    \/ \E d \in 1..DescCount : VolClose(d)
    \/ \E path \in DirPaths : VolDelete(path)
    \/ \E path \in DirPaths : VolCreateDir(path)
    \/ \E path \in DirPaths : VolOpenDir(path)
    \/ \E parent \in HeldDirs, child \in HeldDirs : VolDeleteDir(parent, child)

\* Files and directories are created, opened, closed and deleted on a freshly
\* formatted partition.
DirSpec == PartInit /\ [][DirNext]_vars

RECURSIVE Lookup(_, _, _)
\* What the names lead to from the directory with the index node idx, read
\* from the entries on the disk: the type and the index node of the last
\* name, Unknown where a name is missing or lies below a regular file.
Lookup(v, idx, names) ==
    LET r == SearchDirEntry(v, v.nodes[idx], Head(names))
    IN IF names = <<>>
          THEN [type |-> Directory, idx |-> idx]
          ELSE IF ~r.found \/ r.entry.inode_idx \notin 0..(NodeCount - 1)
                  THEN [type |-> Unknown, idx |-> NoPos]
                  ELSE IF Len(names) = 1
                          THEN [type |-> r.entry.type, idx |-> r.entry.inode_idx]
                          ELSE IF r.entry.type = Directory
                                  THEN Lookup(v, r.entry.inode_idx, Tail(names))
                                  ELSE [type |-> Unknown, idx |-> NoPos]

\* The names of a path but the last.
ParentNames(path) == SubSeq(Names(path), 1, Len(Names(path)) - 1)

\* The directory has a block with a free entry, or the disk has the blocks a
\* new entry may take: one for the entry, one for a table, one for the new
\* directory.
HasRoom(v, idx) ==
    /\ AllocNode(v) # NoPos
    /\ Cardinality(v.used) + 3 <= DiskBlocks
    /\ \E i \in 0..(MaxSectors - 1) : DirLbas(v, v.nodes[idx])[i] = 0

\* C24: for an absolute path whose parent directory exists and that does not
\* exist yet, at any depth, create_dir returns true, and open_dir on the
\* path then returns an open directory whose live entries are exactly "."
\* with the index node of the new directory and ".." with the index node of
\* its parent.
C24_CreateDirThenOpenDir ==
    \A path \in DirPaths :
        LET parent == Lookup(vol, RootNode, ParentNames(path))
            c == CreateDir(vol, Path(path))
            o == OpenDir(c.p, Path(path))
            made == Lookup(c.p, RootNode, Names(path))
        IN (/\ ~panic
            /\ Names(path) # <<>>
            /\ parent.type = Directory
            /\ Lookup(vol, RootNode, Names(path)).type = Unknown
            /\ HasRoom(vol, parent.idx)) =>
               /\ ~c.bad
               /\ c.res
               /\ ~o.bad
               /\ o.dir # "none"
               /\ made.type = Directory
               /\ ReadDir(o.p, o.dir, 0).entry =
                     DirEntry(Directory, CurrDirName, made.idx)
               /\ ReadDir(o.p, o.dir, EntrySize).entry =
                     DirEntry(Directory, ParentDirName, parent.idx)
               /\ ReadDir(o.p, o.dir, 2 * EntrySize).entry = "none"

\* C25: on the freshly formatted partition open_dir("/") succeeds: the Path
\* built from the string "/" is recognised as the root directory, and reading
\* the directory it returns yields exactly the entries "." and "..".
C25_OpenDirOfSlash ==
    LET path == Path(<<Separator>>)
        o == OpenDir(vol, path)
    IN (~panic /\ InitVol) =>
          /\ IsRootDir(path)
          /\ ~o.bad
          /\ o.dir = RootDir
          /\ ReadDir(o.p, o.dir, 0).entry = DirEntry(Directory, CurrDirName, RootNode)
          /\ ReadDir(o.p, o.dir, EntrySize).entry =
                DirEntry(Directory, ParentDirName, RootNode)
          /\ ReadDir(o.p, o.dir, 2 * EntrySize).entry = "none"

\* The process can open one more file: an entry of the open file table and a
\* local descriptor are free.
HasDesc(v) ==
    /\ GetFreeDesc(v) # NoPos
    /\ \E d \in 1..DescCount : v.descs[d] = NoPos

\* C26: for a path that does not exist in an existing directory (here the
\* root directory), creating the file, closing the descriptor and deleting the
\* path succeeds, and opening the path then without CreateNew returns the
\* invalid descriptor.
C26_CreateCloseDeleteOpen ==
    \A path \in DirPaths :
        LET c == OpenVolPath(vol, Path(path), {"CreateNew"})
            x == CloseVolDesc(c.p, c.res)
            r == DeleteVolFile(x.p, Path(path))
            o == OpenVolPath(r.p, Path(path), {})
        IN (/\ ~panic
            /\ Len(Names(path)) = 1
            /\ ~IsDir(Path(path))
            /\ Lookup(vol, RootNode, Names(path)).type = Unknown
            /\ HasRoom(vol, RootNode)
            /\ HasDesc(vol)) =>
               /\ ~c.bad
               /\ c.res # NoPos
               /\ ~x.bad
               /\ ~r.bad
               /\ r.res
               /\ ~o.bad
               /\ o.res = NoPos

\* The directories that the entries of the directories in dirs name, with
\* dirs themselves.
WithSubDirs(v, dirs) ==
    dirs \cup
    {idx \in 0..(NodeCount - 1) :
        \E d \in dirs, i \in 0..(MaxSectors - 1), j \in 0..(EntriesPerSector - 1) :
            LET lba == DirLbas(v, v.nodes[d])[i]
            IN /\ lba # 0
               /\ EntryAt(v.sect[lba], j).type = Directory
               /\ EntryAt(v.sect[lba], j).name \notin
                     {NameWord(CurrDirName), NameWord(ParentDirName)}
               /\ EntryAt(v.sect[lba], j).inode_idx = idx}

\* The directories that exist: the root directory and those two levels below.
ExistingDirs(v) == WithSubDirs(v, WithSubDirs(v, {RootNode}))

\* The directory has the entries "." and ".." in one block that its index
\* node refers to and that the block bitmap marks as allocated.
HasDotEntries(v, idx) ==
    \E i \in 0..(MaxSectors - 1) :
        LET lba == DirLbas(v, v.nodes[idx])[i]
        IN /\ lba # 0
           /\ lba \in v.used
           /\ \E j \in Live(v.sect[lba]) :
                 EntryAt(v.sect[lba], j) = DirEntry(Directory, CurrDirName, idx)
           /\ \E j \in Live(v.sect[lba]) :
                 /\ EntryAt(v.sect[lba], j).type = Directory
                 /\ EntryAt(v.sect[lba], j).name = NameWord(ParentDirName)

\* C27: after any sequence of create-file, create-directory, delete-file and
\* delete-directory operations every existing directory, the root included,
\* has live entries "." and ".." in a block that its index node refers to and
\* that is allocated in the block bitmap, and its size is a multiple of the
\* size of an entry and at least two entries.
C27_DirectoriesKeepDotEntries ==
    ~panic =>
        \A idx \in ExistingDirs(vol) :
            /\ HasDotEntries(vol, idx)
            /\ vol.nodes[idx].size % EntrySize = 0
            /\ vol.nodes[idx].size >= MinEntryCount * EntrySize

\* C28: DeleteDir returns false and changes nothing in memory or on the disk
\* whenever the directory to delete is the root directory or is not empty
\* (its size exceeds min_entry_count entries).
C28_DeleteDirRefused ==
    \A parent \in HeldDirs, child \in HeldDirs :
        LET r == DeleteDir(vol, parent, child)
        IN (/\ ~panic
            /\ \/ child.idx = RootNode
               \/ NodeOf(vol, child.idx).size > MinEntryCount * EntrySize) =>
               /\ ~r.bad
               /\ ~r.res
               /\ r.p = vol

\* The files created so far, where no file is deleted: the index nodes in use
\* but the root directory's.
CreatedCount(v) == Cardinality(v.ibits) - 1

\* The name of the n-th file the process creates: the n-th letter.
FillPath(n) == <<Separator, Alphabet[IF n + 2 <= Len(Alphabet) THEN n + 2 ELSE Len(Alphabet)]>>

\* sc::File::Open with CreateNew, of the next file
FillCreate ==
    /\ ~panic
    /\ CreatedCount(vol) + 2 < Len(Alphabet)
    /\ VolReturned(OpenVolPath(vol, Path(FillPath(CreatedCount(vol) + 1)), {"CreateNew"}))

\* sc::File::Close, of a descriptor the process holds
FillClose(d) ==
    /\ ~panic
    /\ vol.descs[d] # NoPos
    /\ VolReturned(CloseVolDesc(vol, d))

FillNext ==
    \/ FillCreate
    \/ \E d \in 1..DescCount : FillClose(d)

\* One file after the other is created in the root directory of a freshly
\* formatted partition, and closed at some time.
FillSpec == PartInit /\ [][FillNext]_vars

\* C29: in a freshly formatted partition file creations succeed up to and
\* including the one that brings the files to max_file_count_per_part; the
\* creation after that finds no free index node, returns the invalid
\* descriptor and leaves the bitmap of index nodes as it was.
C29_CreationsUpToNodeCount ==
    LET n == CreatedCount(vol)
        c == OpenVolPath(vol, Path(FillPath(n + 1)), {"CreateNew"})
    IN (~panic /\ HasDesc(vol) /\ n + 2 < Len(Alphabet)) =>
          /\ ~c.bad
          /\ n < NodeCount => c.res # NoPos
          /\ n >= NodeCount =>
                /\ c.res = NoPos
                /\ AllocNode(vol) = NoPos
                /\ c.p.ibits = vol.ibits

VolFlags == {{}, {"ReadWrite"}, {"CreateNew"}, {"CreateNew", "ReadWrite"}}

\* The open or the create of the path gets as far as an entry of the open
\* file table: the file is there and may be opened with the flags, or it is
\* not there and the root directory can take it.
ClaimsSlot(v, path, flags) ==
    LET found == Lookup(v, RootNode, Names(path))
    IN /\ Len(Names(path)) = 1
       /\ ~IsDir(Path(path))
       /\ GetFreeDesc(v) # NoPos
       /\ IF "CreateNew" \in flags
             THEN found.type = Unknown /\ HasRoom(v, RootNode)
             ELSE /\ found.type = Regular
                  /\ IsWrite(flags) =>
                        \A k \in 1..Len(v.open) :
                            v.open[k].idx = found.idx => ~v.open[k].write_deny

\* C31: an open or a create that has taken an entry of the open file table
\* while the caller's table of local descriptors is full returns the invalid
\* descriptor and gives back what it took: the entry of the open file table
\* is free again, and open_times and write_deny of the index node are as
\* before the call, no index node staying open after a create.
C31_LocalTableFullRollsBack ==
    \A path \in DirPaths, flags \in VolFlags :
        LET r == OpenVolPath(vol, Path(path), flags)
        IN (/\ ~panic
            /\ \A d \in 1..DescCount : vol.descs[d] # NoPos
            /\ ClaimsSlot(vol, path, flags)) =>
               /\ ~r.bad
               /\ r.res = NoPos
               /\ r.p.tab = vol.tab
               /\ r.p.open = vol.open

\* ------------------------------------------------------------------ Heap

\* nullptr as the address of a block.
NullAddr == [vp |-> "none", page |-> NoPos, off |-> NoPos]

RECURSIVE BlockSize(_)
\* MemBlockDescTab::Init: the block size of the d-th descriptor, each twice
\* the one before.
BlockSize(d) == IF d = 1 THEN MinBlockSize ELSE 2 * BlockSize(d - 1)

\* MemBlockDescTab::max_block_size
MaxBlockSize == BlockSize(BlockDescCount)

\* MemBlockDesc::Init: block_count_per_arena_
BlockCountPerArena(d) == (PageWords - ArenaWords) \div BlockSize(d)

\* MemBlockDescTab::GetMinDesc, for a size of at most max_block_size
GetMinDesc(size) == Min({d \in 1..BlockDescCount : size <= BlockSize(d)})

\* CalcPageCount
CalcPageCount(size) == (size + PageWords - 1) \div PageWords

\* MemArena::GetBlock(idx) of the arena in the page, as an address.
BlockAddr(vp, page, d, idx) ==
    [vp |-> vp, page |-> page, off |-> ArenaWords + idx * BlockSize(d)]

\* mem::Allocate, the large arena: the pages for the size and the header are
\* allocated, and AssertAlloc halts the kernel when they cannot be.
AllocateLarge(m, h, vp, size) ==
    LET Got(r, count) ==
            IF r.bad \/ r.res = NoPos
               THEN [m |-> m, h |-> h, res |-> NullAddr, bad |-> TRUE]
               ELSE [m |-> r.m,
                     h |-> [h EXCEPT !.arenas[vp][r.res] =
                                        [desc |-> 0, count |-> count, large |-> TRUE]],
                     res |-> [vp |-> vp, page |-> r.res, off |-> ArenaWords],
                     bad |-> FALSE]
    IN Got(AllocPages(m, vp, CalcPageCount(size + ArenaWords)),
           CalcPageCount(size + ArenaWords))

\* mem::Allocate, the new arena of a descriptor whose free block list is
\* empty: one page, every block of it pushed to the back of the list.
NewArena(m, h, vp, d) ==
    LET Got(r) ==
            IF r.bad \/ r.res = NoPos
               THEN [m |-> m, h |-> h, bad |-> TRUE]
               ELSE [m |-> r.m,
                     h |-> [h EXCEPT !.arenas[vp][r.res] =
                                        [desc |-> d, count |-> BlockCountPerArena(d),
                                         large |-> FALSE],
                                     !.free[vp][d] =
                                        [i \in 1..BlockCountPerArena(d) |->
                                            BlockAddr(vp, r.res, d, i - 1)]],
                     bad |-> FALSE]
    IN Got(AllocPages(m, vp, 1))

\* mem::Allocate, the block: the head of the free block list leaves it and
\* its arena counts one block less.
PopBlock(m, h, vp, d) ==
    LET block == Head(h.free[vp][d])
    IN IF h.free[vp][d] = <<>> \/ h.arenas[vp][block.page].count = 0
          THEN [m |-> m, h |-> h, res |-> NullAddr, bad |-> TRUE]
          ELSE [m |-> m,
                h |-> [h EXCEPT !.free[vp][d] = Tail(@),
                                !.arenas[vp][block.page].count = @ - 1],
                res |-> block, bad |-> FALSE]

\* mem::Allocate(type, size), size > 0
Allocate(m, h, vp, size) ==
    LET Filled(a, d) ==
            IF a.bad
               THEN [m |-> m, h |-> h, res |-> NullAddr, bad |-> TRUE]
               ELSE PopBlock(a.m, a.h, vp, d)
        Small(d) ==
            IF h.free[vp][d] = <<>>
               THEN Filled(NewArena(m, h, vp, d), d)
               ELSE PopBlock(m, h, vp, d)
    IN IF m.phyFree[PhyOf(vp)] * PageWords < size
          THEN [m |-> m, h |-> h, res |-> NullAddr, bad |-> FALSE]
          ELSE IF size > MaxBlockSize
                  THEN AllocateLarge(m, h, vp, size)
                  ELSE Small(GetMinDesc(size))

\* A Free that puts the block back and keeps the arena whatever its count.
KeepArena(m, h, block) ==
    [m |-> m, h |-> h, bad |-> FALSE]

\* mem::Free, the arena whose blocks are all free: every block of it leaves
\* the free block list and the page is freed.
FreeArena(m, h, block) ==
    [m |-> FreePages(m, block.vp, block.page, 1),
     h |-> [h EXCEPT !.arenas[block.vp][block.page] = NoArena,
                     !.free[block.vp][h.arenas[block.vp][block.page].desc] =
                        SelectSeq(@, LAMBDA b : b.page # block.page)],
     bad |-> FALSE]

\* mem::Free(type, vr_base), vr_base not null
Free(m, h, block) ==
    LET arena == h.arenas[block.vp][block.page]
        Pushed(g) ==
            IF g.arenas[block.vp][block.page].count = BlockCountPerArena(arena.desc)
               THEN FreeArena(m, g, block)
               ELSE [m |-> m, h |-> g, bad |-> FALSE]
    IN IF arena.large
          THEN [m |-> FreePages(m, block.vp, block.page, arena.count),
                h |-> [h EXCEPT !.arenas[block.vp][block.page] = NoArena],
                bad |-> FALSE]
          ELSE Pushed([h EXCEPT !.free[block.vp][arena.desc] = Append(@, block),
                                !.arenas[block.vp][block.page].count = @ + 1])

\* The sizes a caller asks for: the smallest and the largest block, and large
\* arenas of one page and of two.
HeapSizes == {MinBlockSize, MaxBlockSize - 1, MaxBlockSize + 1, PageWords - 1}

\* The number of addresses the threads hold at a time.
MaxHeld == 3

nonHeapVars ==
    <<schedVars, syncVars, pc, depth, queueVars, diskVars, blocks, last, mloc, run, intr, guards,
      fk, part, vol, ide>>

\* mem::Allocate(type, size) by a thread that keeps the address it gets.
HeapAllocate(vp, size) ==
    /\ ~panic
    /\ Cardinality(heap.held) < MaxHeld
    /\ LET r == Allocate(mem, heap, vp, size)
       IN /\ panic' = r.bad
          /\ mem' = IF r.bad THEN mem ELSE r.m
          /\ heap' = IF r.bad \/ r.res = NullAddr
                        THEN heap
                        ELSE [r.h EXCEPT !.held = @ \cup {r.res}]
    /\ UNCHANGED nonHeapVars

\* mem::Free(type, vr_base) of an address the thread holds.
HeapFree(block) ==
    /\ ~panic
    /\ block \in heap.held
    /\ LET r == Free(mem, heap, block)
       IN /\ panic' = r.bad
          /\ mem' = IF r.bad THEN mem ELSE r.m
          /\ heap' = IF r.bad THEN heap ELSE [r.h EXCEPT !.held = @ \ {block}]
    /\ UNCHANGED nonHeapVars

HeapNext ==
    \/ \E size \in HeapSizes : HeapAllocate("krnl", size)
    \/ \E block \in heap.held : HeapFree(block)
    \/ CallAllocPages("krnl", 1)
    \/ \E b \in blocks : CallFreePages(b)

\* Threads allocate from and free to the heaps, and pages are taken from and
\* given back to the pools beside them.
HeapSpec == PoolInit /\ [][HeapNext]_vars

\* The number of calls a run on the kernel heap makes.
MaxLog == 5

\* The sizes of the run: blocks of two descriptors.
ArenaSizes == {MinBlockSize, MaxBlockSize - 1}

\* A call of mem::Allocate in a run on the kernel heap on which nothing else
\* allocates: the size and the address returned are recorded.
ArenaAllocate(size) ==
    /\ ~panic
    /\ Len(heap.log) < MaxLog
    /\ LET r == Allocate(mem, heap, "krnl", size)
       IN /\ panic' = r.bad
          /\ mem' = IF r.bad THEN mem ELSE r.m
          /\ heap' = IF r.bad
                        THEN heap
                        ELSE [r.h EXCEPT !.held = @ \cup ({r.res} \ {NullAddr}),
                                         !.log = Append(@, [op |-> "allocate", size |-> size,
                                                            addr |-> r.res])]
    /\ UNCHANGED nonHeapVars

\* A call of mem::Free in the run: the address freed is recorded.
ArenaFree(block) ==
    /\ ~panic
    /\ Len(heap.log) < MaxLog
    /\ block \in heap.held
    /\ LET r == Free(mem, heap, block)
       IN /\ panic' = r.bad
          /\ mem' = IF r.bad THEN mem ELSE r.m
          /\ heap' = IF r.bad
                        THEN heap
                        ELSE [r.h EXCEPT !.held = @ \ {block},
                                         !.log = Append(@, [op |-> "free", size |-> 0,
                                                            addr |-> block])]
    /\ UNCHANGED nonHeapVars

ArenaNext ==
    \/ \E size \in ArenaSizes : ArenaAllocate(size)
    \/ \E block \in heap.held : ArenaFree(block)

\* The calls of one thread on a kernel heap that starts with no arenas.
ArenaSpec == PoolInit /\ [][ArenaNext]_vars

\* The pages a request needs: those of a large arena with its header, one for
\* a block whose descriptor has no free block, none otherwise.
PagesNeeded(h, vp, size) ==
    IF size > MaxBlockSize
       THEN CalcPageCount(size + ArenaWords)
       ELSE IF h.free[vp][GetMinDesc(size)] = <<>> THEN 1 ELSE 0

\* The request cannot be satisfied: it needs pages and there are fewer free
\* frames than it needs, or no free range of virtual pages of that length.
CannotSatisfy(m, h, vp, size) ==
    /\ PagesNeeded(h, vp, size) > 0
    /\ \/ m.phyFree[PhyOf(vp)] < PagesNeeded(h, vp, size)
       \/ BitmapFind(m.vrBits[vp], VrPages, PagesNeeded(h, vp, size)) = NoPos

\* C32: whenever a request cannot be satisfied (no free physical frame, no
\* free range of virtual addresses, or fewer free pages than the size and the
\* arena header need), allocate(size) returns null, the kernel does not halt
\* and the pools and the heap are as they were.
C32_AllocateReturnsNull ==
    ~panic =>
        \A size \in HeapSizes :
            CannotSatisfy(mem, heap, "krnl", size) =>
                LET Null(r) == ~r.bad /\ r.res = NullAddr /\ r.m = mem /\ r.h = heap
                IN Null(Allocate(mem, heap, "krnl", size))

\* The run of the claim: a block of one descriptor, a block of another, the
\* first block freed, and a block of the first size again.
ReusesBlock(log) ==
    /\ Len(log) >= 4
    /\ log[1].op = "allocate" /\ log[1].addr # NullAddr
    /\ log[2].op = "allocate" /\ log[2].addr # NullAddr
    /\ GetMinDesc(log[1].size) # GetMinDesc(log[2].size)
    /\ log[3].op = "free" /\ log[3].addr = log[1].addr
    /\ log[4].op = "allocate" /\ log[4].size = log[1].size

\* C33: on a kernel heap that starts with no arenas, after a = allocate of a
\* small size, b = allocate of a size of another descriptor, free(a) and
\* c = allocate of the first size, c is the address a, and the free list of
\* the descriptor of a holds all the blocks of one arena but one.
C33_FreedBlockIsReused ==
    ReusesBlock(heap.log) =>
        /\ heap.log[4].addr = heap.log[1].addr
        /\ Len(heap.log) = 4 =>
              Len(heap.free["krnl"][GetMinDesc(heap.log[1].size)]) =
                  BlockCountPerArena(GetMinDesc(heap.log[1].size)) - 1

C33_Witness ==
    /\ ReusesBlock(heap.log)
    /\ Len(heap.log) = 4
    /\ heap.log[4].addr = heap.log[1].addr
    /\ heap.log[1].addr \in heap.held
    /\ heap.log[2].addr \in heap.held
    /\ BlockCountPerArena(GetMinDesc(heap.log[1].size)) > 1

\* ------------------------------------------------------------------ Disks

\* IdeChnl::max_disk_count, max_ide_chnl_count and boot_disk_idx
MaxDiskCount == 2
MaxIdeChnlCount == 2
BootDiskIdx == 0

\* The number of disks the BIOS reports and the number of primary partitions
\* in the boot record of a disk.
MaxDisks == 4
MaxPrim == 1

\* RoundUpDivide(GetDiskCount(), IdeChnl::max_disk_count)
GetIdeChnlCount(count) == (count + MaxDiskCount - 1) \div MaxDiskCount

\* The place of a disk among the disks of the system: sda is 0, sdb 1, the
\* first disk of the secondary channel, sdc, 2.
DiskNo(chnl, disk) == chnl * MaxDiskCount + disk

nonIdeVars ==
    <<schedVars, syncVars, pc, depth, queueVars, diskVars, memVars, run, intr, guards,
      fk, part, vol, heap>>

\* The machine is started with its disks: the count at 0x475 that
\* GetDiskCount reads, and a boot record on every disk.
IdeBoot(count, prims) ==
    /\ ~panic
    /\ ide.pos = "off"
    /\ ide' = [ide EXCEPT !.count = count, !.prims = prims, !.pos = "chnl"]
    /\ UNCHANGED <<panic, nonIdeVars>>

\* InitDisk, the loop over the channels: the name, the type and the interrupt
\* number of the channel and its handler; after the last channel the disks
\* are initialised.
InitChnl ==
    /\ ~panic
    /\ ide.pos = "chnl"
    /\ IF GetIdeChnlCount(ide.count) > MaxIdeChnlCount
          THEN panic' = TRUE /\ UNCHANGED ide
          ELSE /\ UNCHANGED panic
               /\ ide' = IF ide.chnl = GetIdeChnlCount(ide.count)
                            THEN [ide EXCEPT !.pos = "done"]
                            ELSE [ide EXCEPT !.pos = "disk", !.disk = 0]
    /\ UNCHANGED nonIdeVars

\* Disk::ScanParts(): the boot record at LBA 0 is read and every primary
\* partition in it joins the list of the partitions.
ScanParts(d, no) ==
    [d EXCEPT !.scanned = @ \cup {[disk |-> no, lba |-> 0]},
              !.parts = @ \cup {<<no, k>> : k \in 1..d.prims[no + 1]}]

\* InitDisk, the loop over the disks of a channel: the disk is named and
\* attached, and scanned when disk_idx is not boot_disk_idx.
InitOneDisk ==
    /\ ~panic
    /\ ide.pos = "disk"
    /\ ide' = IF ide.disk # MaxDiskCount /\ ide.inited # ide.count
                 THEN LET Attached(d) ==
                              [d EXCEPT !.attached = @ \cup {DiskNo(ide.chnl, ide.disk)},
                                        !.disk = @ + 1, !.inited = @ + 1]
                      IN IF ide.disk # BootDiskIdx
                            THEN ScanParts(Attached(ide), DiskNo(ide.chnl, ide.disk))
                            ELSE Attached(ide)
                 ELSE [ide EXCEPT !.chnl = @ + 1, !.pos = "chnl"]
    /\ UNCHANGED <<panic, nonIdeVars>>

IdeNext ==
    \/ \E count \in 1..MaxDisks :
           \E prims \in [1..count -> 0..MaxPrim] : IdeBoot(count, prims)
    \/ InitChnl
    \/ InitOneDisk

\* The kernel initialises the disks of the machine it is started on.
IdeSpec == Init /\ [][IdeNext]_vars

\* C34: when the disks are initialised, every attached disk but the boot
\* disk, the first disk of the system, has been scanned for partitions from
\* its LBA 0, the first disk of the secondary channel among them, and the
\* boot disk has not been scanned.
C34_AllButBootDiskScanned ==
    ide.pos = "done" =>
        /\ ide.attached = 0..(ide.count - 1)
        /\ \A no \in ide.attached :
               ([disk |-> no, lba |-> 0] \in ide.scanned) <=> (no # DiskNo(0, BootDiskIdx))

\* ------------------------------------------------- Producers and consumers

\* The threads that only push to the queue and the threads that only pop.
Producers == {"t1"}
Consumers == {"t2", "t3"}

RoleNext ==
    \/ Tick
    \/ IdleBlock
    \/ IdleWake
    \/ \E t \in Producers : PushLoop(t)
    \/ \E t \in Producers : PushLock(t)
    \/ \E t \in Producers : PushLockDecrease(t)
    \/ \E t \in Producers : PushLocked(t)
    \/ \E t \in Producers : PushWait(t)
    \/ \E t \in Producers : PushUnlock(t)
    \/ \E t \in Producers : PushUnlocked(t)
    \/ \E t \in Consumers : PopLoop(t)
    \/ \E t \in Consumers : PopLock(t)
    \/ \E t \in Consumers : PopLockDecrease(t)
    \/ \E t \in Consumers : PopLocked(t)
    \/ \E t \in Consumers : PopWait(t)
    \/ \E t \in Consumers : PopUnlock(t)
    \/ \E t \in Consumers : PopUnlocked(t)

\* One producer and two consumers share the queue; each calls its operation
\* again and again.
RoleSpec == QueueInit /\ [][RoleNext]_vars

\* C35: producers and consumers on one queue never reach a state in which
\* every one of them is blocked, in Wait on the queue or in Lock on its
\* mutex; without such a state a blocked pop returns when pushes go on and a
\* blocked push returns when pops go on.
C35_NeverAllBlocked ==
    ~panic => \E t \in Producers \cup Consumers : status[t] \notin BlockedStates

\* ------------------------------------------------------- fork and dispatch
\* The main thread of a process calls fork while another thread allocates
\* kernel pages; the third thread is the child that Thread::Fork creates.

ForkingThread == "t1"
OtherThread == "t2"
ChildThread == "t3"

\* The physical page pool whose mutex the stage locks.
FkMutex(i) == IF i = 2 THEN "upool" ELSE "kpool"

\* Process::Fork from its start to the copy of the descriptor table:
\* Thread::Fork makes the child thread Ready at the back of the ready list,
\* then CopyFileDescTabTo copies the table.
ForkChild ==
    /\ ~panic
    /\ cur = ForkingThread
    /\ pc[ForkingThread] = "run"
    /\ status[ChildThread] = "Died"
    /\ IF ~Find(ready, ChildThread)
          THEN /\ status' = [status EXCEPT ![ChildThread] = "Ready"]
               /\ ready' = PushBack(ready, ChildThread)
               /\ ticks' = [ticks EXCEPT ![ChildThread] = MaxTicks]
               /\ pc' = [pc EXCEPT ![ForkingThread] = FkPc(1).lock, ![ChildThread] = "child"]
               /\ UNCHANGED panic
          ELSE /\ panic' = TRUE
               /\ UNCHANGED <<status, ready, ticks, pc>>
    /\ UNCHANGED <<cur, depth, syncVars>>
    /\ UNCHANGED extVars

\* Process::Fork, a call into the memory pools: lock_guard on the mutex.
ForkLock(i) ==
    /\ MutexLock(ForkingThread, FkMutex(i), FkPc(i).lock, FkPc(i).dec, FkPc(i).held)
    /\ UNCHANGED <<depth, extVars>>

ForkLockDecrease(i) ==
    /\ SemDecrease(ForkingThread, FkMutex(i), FkPc(i).dec, FkPc(i).lwait, FkPc(i).got)
    /\ UNCHANGED <<depth, extVars>>

ForkLocked(i) ==
    /\ MutexLocked(ForkingThread, FkMutex(i), FkPc(i).got, FkPc(i).held)
    /\ UNCHANGED <<depth, extVars>>

\* Process::Fork, the end of the call into the memory pools: the buffer is
\* allocated, the page copied or the buffer freed, and the mutex is unlocked.
\* After the last of them Fork returns the pid of the child.
ForkUnlock(i) ==
    /\ MutexUnlock(ForkingThread, FkMutex(i), FkPc(i).held, FkPc(i).inc, FkPc(i).next)
    /\ UNCHANGED <<depth, extVars>>

ForkUnlocked(i) ==
    /\ MutexUnlocked(ForkingThread, FkMutex(i), FkPc(i).inc, FkPc(i).next)
    /\ UNCHANGED <<depth, extVars>>

\* mem::AllocPages(PoolType::Kernel) called by another kernel thread, with
\* interrupts enabled: the mutex of the kernel pool is held while the pages
\* are allocated.
OtherLock ==
    /\ MutexLock(OtherThread, "kpool", "run", "k_dec", "k_held")
    /\ UNCHANGED <<depth, extVars>>

OtherLockDecrease ==
    /\ SemDecrease(OtherThread, "kpool", "k_dec", "k_lwait", "k_got")
    /\ UNCHANGED <<depth, extVars>>

OtherLocked ==
    /\ MutexLocked(OtherThread, "kpool", "k_got", "k_held")
    /\ UNCHANGED <<depth, extVars>>

OtherUnlock ==
    /\ MutexUnlock(OtherThread, "kpool", "k_held", "k_inc", "run")
    /\ UNCHANGED <<depth, extVars>>

OtherUnlocked ==
    /\ MutexUnlocked(OtherThread, "kpool", "k_inc", "run")
    /\ UNCHANGED <<depth, extVars>>

ChildInit ==
    /\ InitTwoStarted
    /\ InitSync
    /\ InitQueue
    /\ InitDisk
    /\ InitMem
    /\ InitMore

\* The idle thread blocks once; a thread is always ready after that.
ChildNext ==
    \/ Tick
    \/ IdleBlock
    \/ ForkChild
    \/ \E i \in FkStages : ForkLock(i)
    \/ \E i \in FkStages : ForkLockDecrease(i)
    \/ \E i \in FkStages : ForkLocked(i)
    \/ \E i \in FkStages : ForkUnlock(i)
    \/ \E i \in FkStages : ForkUnlocked(i)
    \/ OtherLock
    \/ OtherLockDecrease
    \/ OtherLocked
    \/ OtherUnlock
    \/ OtherUnlocked

ChildSpec == ChildInit /\ [][ChildNext]_vars

\* C36: the child thread that fork creates runs only after the fork has
\* copied the descriptor table and every allocated page and has returned,
\* also when the forking thread blocks on the mutex of a memory pool that
\* another thread holds.
C36_ChildRunsAfterFork ==
    (~panic /\ cur = ChildThread) => pc[ForkingThread] = "fk_done"

\* ------------------------------------------- fork and the descriptor table
\* A process opens "/x", forks, and the process and its child close the
\* descriptors they hold.

\* FileDescTab::Fork, one descriptor of the table: the open_times of the index
\* node of a valid descriptor go up by one.
RECURSIVE ForkDescs(_, _)
ForkDescs(p, d) ==
    IF d > DescCount
       THEN [p |-> p, bad |-> FALSE]
       ELSE IF p.descs[d] = NoPos
               THEN ForkDescs(p, d + 1)
               ELSE IF ~p.tab[p.descs[d]].open \/ p.open_times = 0
                       THEN [p |-> p, bad |-> TRUE]
                       ELSE ForkDescs([p EXCEPT !.open_times = @ + 1], d + 1)

\* Process::CopyFileDescTabTo: the child's table is a copy of the parent's,
\* then FileDescTab::Fork.
CopyFileDescTabTo(p) == ForkDescs([p EXCEPT !.child = p.descs], 1)

\* FileDesc::Close of the local descriptor d of the child
ChildDescClose(p, d) ==
    LET r == FileClose(p, p.child[d])
    IN [p |-> [r.p EXCEPT !.child[d] = NoPos], res |-> 0, bad |-> r.bad]

\* fork, by a process that has no child yet
SysFork ==
    /\ ~panic
    /\ part.child = <<>>
    /\ Returned(CopyFileDescTabTo(part))

\* sc::File::Close called by the child, of a descriptor it holds
ChildClose(d) ==
    /\ ~panic
    /\ part.child # <<>>
    /\ part.child[d] # NoPos
    /\ Returned(ChildDescClose(part, d))

TabNext ==
    \/ \E flags \in OpenFlags : SysOpen(flags)
    \/ \E d \in 1..DescCount : SysClose(d)
    \/ SysFork
    \/ \E d \in 1..DescCount : ChildClose(d)

TabSpec == PartInit /\ [][TabNext]_vars

\* C37: after fork every descriptor that the parent or the child holds
\* resolves to an open file of the global table, whatever the other has
\* closed, and the index node is open (on the list of the open index nodes)
\* exactly as long as one of them holds a descriptor of the file.
C37_ForkedDescsStayOpen ==
    (~panic /\ part.child # <<>>) =>
        /\ \A d \in 1..DescCount : part.descs[d] # NoPos => part.tab[part.descs[d]].open
        /\ \A d \in 1..DescCount : part.child[d] # NoPos => part.tab[part.child[d]].open
        /\ (part.open_times > 0) <=>
              \E d \in 1..DescCount : part.descs[d] # NoPos \/ part.child[d] # NoPos

\* ------------------------------------------------------------ mutex and time
\* Two threads lock and unlock the mutex "m" again and again under the clock.

LockInit ==
    /\ InitTwoStarted
    /\ InitSync
    /\ InitQueue
    /\ InitDisk
    /\ InitMem
    /\ InitMore

\* Mutex::Lock called by a thread that does not hold the mutex.
LockOnce(t) ==
    /\ depth[t] = 0
    /\ LockCall(t)

\* The idle thread blocks once; a thread is always ready after that.
LockNext ==
    \/ Tick
    \/ IdleBlock
    \/ \E t \in Workers : LockOnce(t)
    \/ \E t \in Workers : LockDecrease(t)
    \/ \E t \in Workers : LockReturn(t)
    \/ \E t \in Workers : UnlockCall(t)
    \/ \E t \in Workers : UnlockReturn(t)

LockSpec == LockInit /\ [][LockNext]_vars

\* Fair scheduling: the clock keeps interrupting, a thread that is switched
\* to again and again goes on in Lock and in Unlock, and a thread that holds
\* the mutex calls Unlock.
LockFairness ==
    /\ SF_vars(Tick)
    /\ WF_vars(IdleBlock)
    /\ \A t \in Workers :
          /\ SF_vars(LockDecrease(t))
          /\ SF_vars(LockReturn(t))
          /\ SF_vars(UnlockCall(t))
          /\ SF_vars(UnlockReturn(t))

FairLockSpec == LockSpec /\ LockFairness

\* C38: under fair scheduling, with every holder unlocking in the end, a
\* thread that has called Lock becomes the holder of the mutex, also when
\* other threads unlock and lock again at once.
C38_LockEventuallyAcquires ==
    (\A u \in Workers : []<>(holder["m"] # u)) =>
        \A t \in Workers :
            (pc[t] \in {"lock_dec", "lock_wait"}) ~> (holder["m"] = t \/ panic)

\* ------------------------------------------ write, read and seek by system call
\* A process works on "/x" through the system calls alone.

\* io::File::~File at the end of a system call that made a temporary File of
\* the descriptor d: File::Close closes the descriptor; r is what the call
\* returns.
CloseTemporary(r, d) ==
    LET Closed(c) == [p |-> c.p, res |-> r.res, bad |-> c.bad]
    IN IF r.bad THEN r ELSE Closed(DescClose(r.p, d))

\* sc::File::Write
ScWrite(p, d, data) == CloseTemporary(WriteFile(p, p.descs[d], data), d)

\* sc::File::Read
ScRead(p, d, n) == CloseTemporary(ReadFile(p, p.descs[d], n), d)

\* sc::File::Seek
ScSeek(p, d, offset, origin) == CloseTemporary(SeekFile(p, p.descs[d], offset, origin), d)

SysWrite(d, n) ==
    /\ ~panic
    /\ part.descs[d] # NoPos
    /\ Returned(ScWrite(part, d, Data(part.size, n)))

SysRead(d, n) ==
    /\ ~panic
    /\ part.descs[d] # NoPos
    /\ Returned(ScRead(part, d, n))

SysSeek(d, offset, origin) ==
    /\ ~panic
    /\ part.descs[d] # NoPos
    /\ Returned(ScSeek(part, d, offset, origin))

SysNext ==
    \/ \E flags \in OpenFlags : SysOpen(flags)
    \/ \E d \in 1..DescCount : SysClose(d)
    \/ SysDelete
    \/ \E d \in 1..DescCount, n \in IoSizes : SysWrite(d, n)
    \/ \E d \in 1..DescCount, n \in IoSizes : SysRead(d, n)
    \/ \E d \in 1..DescCount, offset \in {-1, 0, SectorSize}, origin \in {"Begin", "Curr", "End"} :
          SysSeek(d, offset, origin)

SysSpec == PartInit /\ [][SysNext]_vars

\* What a system call on the descriptor d has to leave as it is: the entry
\* of the global table the descriptor names, its being open, and open_times
\* and write_deny of the index node.
KeepsDesc(p, r, d) ==
    ~r.bad =>
        /\ r.p.descs[d] = p.descs[d]
        /\ r.p.tab[p.descs[d]].open
        /\ r.p.open_times = p.open_times
        /\ r.p.write_deny = p.write_deny

\* C39: the system calls write, read and seek do not close the descriptor
\* they work on: after the call the descriptor names the same open entry of
\* the global table and open_times and write_deny are what they were.
C39_CallsKeepDescriptor ==
    ~panic =>
        \A d \in 1..DescCount :
            (part.descs[d] # NoPos /\ part.tab[part.descs[d]].open) =>
                /\ \A n \in IoSizes : KeepsDesc(part, ScWrite(part, d, Data(part.size, n)), d)
                /\ \A n \in IoSizes : KeepsDesc(part, ScRead(part, d, n), d)
                /\ \A origin \in {"Begin", "Curr", "End"} :
                       KeepsDesc(part, ScSeek(part, d, 0, origin), d)

\* C40: after every completed operation of the file system the block bitmap
\* on the disk equals the block bitmap in memory, and a bit is set exactly
\* for the blocks in use by the existing file (its data blocks and its
\* indirect block table), so that mounting the partition again finds the
\* same allocation state.
C40_BitmapsMatchDisk ==
    ~panic =>
        /\ part.disk_used = part.used
        /\ part.used = (IF part.exists THEN FileBlocks(part) ELSE {})

====
